---- MODULE Spec2Model ----
(***************************************************************************)
(* A model of the heat-map comparison engine of                            *)
(* src/src/visualization/plot_3d_like.py: the discretizer                  *)
(* (find_percentiles, remove_nans), the cardinality reducer                *)
(* (add_column_other), the contingency grid, the normaliser and the        *)
(* significance test (ttest_bernoulli_ind), as calculate_ticks_and_norm    *)
(* runs them.                                                              *)
(*                                                                         *)
(* Representation.                                                         *)
(*  - A cell of a DataFrame is Nan, Num(n) (a number) or Str(s) (a string, *)
(*    s the sequence of its character codes, so that sorted() can compare  *)
(*    strings as Python does).                                             *)
(*  - A real number is an exact fraction <<n, d>> in lowest terms, d > 0.  *)
(*    Where a claim depends on what the IEEE-754 double holds, F64Div and  *)
(*    F64Add give the correctly rounded double as a fixed-point number.    *)
(*  - Numbers beyond 32 bits (the terms of the z-test, which carry the     *)
(*    1e-7 of normalize_1d) are naturals in base BigBase, least            *)
(*    significant digit first.                                             *)
(*                                                                         *)
(* Specifications.  Spec, SpecModes, SpecFirst, SpecJoint, SpecExclusion   *)
(* and SpecBudget run calculate_ticks_and_norm once (action Call) on six   *)
(* families of arguments, SpecRepeat twice on the same DataFrame (action   *)
(* CallAgain); SpecHeatmap runs plot_2d_heatmap (action CallHeatmap);      *)
(* SpecReducer and SpecReducerMany apply the cardinality reducer twice in  *)
(* a row (action ApplyReducer); SpecTtest runs ttest_bernoulli_ind on one  *)
(* cell (action CallTtest); SpecPercentiles runs find_percentiles (action  *)
(* CallFindPercentiles) and SpecDiscretize the discretization of one axis  *)
(* (action CallDiscretize).  SpecRetriever and SpecEnrich are the two      *)
(* resumable scripts, scripts/parse_imdb_metadata.py and                   *)
(* scripts/movie_metadata_selection.py, with runs that are killed and      *)
(* started again.                                                          *)
(***************************************************************************)
EXTENDS Integers, Sequences, FiniteSets, TLC

VARIABLES
    args,    \* the arguments of the call in progress (the caller's DataFrame in args.data)
    frame,   \* the locals and the outcome of the function once it has run
    pc       \* "call" before the function runs, "done" after ("once", "twice": the
             \* applications of the reducer made so far; "new", "constructed",
             \* "loop": the position of a run of a script)

vars == <<args, frame, pc>>

---------------------------------------------------------------------------
(* Bounds of the model. *)

\* rows of a dataset in the exhaustive family
MaxRows == 3
\* largest bin budget (num_xbins, num_ybins) tried
MaxBins == 2

---------------------------------------------------------------------------
(* Generic helpers on sequences. *)

Range(s) == {s[i] : i \in DOMAIN s}

RECURSIVE SumSeq(_)
SumSeq(s) == IF s = <<>> THEN 0 ELSE Head(s) + SumSeq(Tail(s))

Max2(a, b) == IF a >= b THEN a ELSE b
Min2(a, b) == IF a <= b THEN a ELSE b
Abs(n) == IF n < 0 THEN -n ELSE n

RECURSIVE Gcd(_, _)
Gcd(a, b) == IF b = 0 THEN a ELSE Gcd(b, a % b)

---------------------------------------------------------------------------
(* Cells of a DataFrame and Python strings. *)

Nan == [k |-> "nan"]
Num(n) == [k |-> "num", v |-> n]
\* the double n * 2^HugeExp, n >= 1: from 2^48 on the doubles lie more than
\* 0.02 apart, so that x - 0.01 and x + 0.01 (lines 75-76) round back to x
HugeExp == 48
Huge(n) == [k |-> "num", v |-> n, e |-> HugeExp]
IsHuge(c) == c.k = "num" /\ "e" \in DOMAIN c
Str(s) == [k |-> "str", s |-> s]

IsNa(c) == c.k = "nan"

\* the literal "Other"
Other == Str(<<79, 116, 104, 101, 114>>)

\* Python's str < str: by code point, a proper prefix first
RECURSIVE LexLess(_, _)
LexLess(s, t) ==
    IF t = <<>> THEN FALSE
    ELSE IF s = <<>> THEN TRUE
    ELSE IF Head(s) # Head(t) THEN Head(s) < Head(t)
    ELSE LexLess(Tail(s), Tail(t))

StrLess(a, b) == LexLess(a.s, b.s)

\* sorted(list of str, reverse=True)
RECURSIVE SortedLabelsReversed(_)
SortedLabelsReversed(S) ==
    IF S = {} THEN <<>>
    ELSE LET m == CHOOSE a \in S : \A b \in S \ {a} : StrLess(b, a)
         IN <<m>> \o SortedLabelsReversed(S \ {m})

\* sorted(list of str)
RECURSIVE SortedLabels(_)
SortedLabels(S) ==
    IF S = {} THEN <<>>
    ELSE LET m == CHOOSE a \in S : \A b \in S \ {a} : StrLess(a, b)
         IN <<m>> \o SortedLabels(S \ {m})

\* Series.unique(): the distinct values in order of first appearance
Unique(s) ==
    LET firsts == {i \in DOMAIN s : \A j \in 1 .. i - 1 : s[j] # s[i]}
        kth(k) == CHOOSE i \in firsts : Cardinality({j \in firsts : j < i}) = k - 1
    IN [k \in 1 .. Cardinality(firsts) |-> s[kth(k)]]

Count(s, x) == Cardinality({i \in DOMAIN s : s[i] = x})

---------------------------------------------------------------------------
(* Exact fractions: <<n, d>>, d > 0, in lowest terms.  <<0, 0>> is a float *)
(* NaN (np.quantile of an empty column).                                   *)

RNorm(n, d) ==
    LET g == Gcd(Abs(n), Abs(d))
    IN IF d < 0 THEN <<(-n) \div g, (-d) \div g>> ELSE <<n \div g, d \div g>>

RInt(n) == <<n, 1>>
RNan == <<0, 0>>
RIsNan(a) == a = <<0, 0>>
\* a float that is NaN or an infinity (<<1, 0>>, <<-1, 0>>)
RIsFinite(a) == a[2] # 0
RAdd(a, b) == RNorm(a[1] * b[2] + b[1] * a[2], a[2] * b[2])
RSub(a, b) == RNorm(a[1] * b[2] - b[1] * a[2], a[2] * b[2])
\* numpy's division: x/0 is NaN for x = 0 and an infinity otherwise
RDiv(a, b) ==
    IF b[1] = 0 THEN (IF a[1] = 0 THEN RNan ELSE IF a[1] > 0 THEN <<1, 0>> ELSE <<-1, 0>>)
    ELSE RNorm(a[1] * b[2], a[2] * b[1])
RLe(a, b) == a[1] * b[2] <= b[1] * a[2]
RLt(a, b) == a[1] * b[2] < b[1] * a[2]

---------------------------------------------------------------------------
(* f"{v:.2f}": the decimal digits of v rounded to two places, ties to even *)

RECURSIVE Digits(_)
Digits(n) == IF n < 10 THEN <<48 + n>> ELSE Append(Digits(n \div 10), 48 + (n % 10))

Fmt2(r) ==
    IF RIsNan(r) THEN <<110, 97, 110>>
    ELSE LET n == Abs(r[1])
             q == (n * 100) \div r[2]
             rem == (n * 100) % r[2]
             cents == IF 2 * rem > r[2] \/ (2 * rem = r[2] /\ q % 2 = 1) THEN q + 1 ELSE q
         IN (IF r[1] < 0 THEN <<45>> ELSE <<>>)
            \o Digits(cents \div 100)
            \o <<46, 48 + ((cents % 100) \div 10), 48 + (cents % 10)>>

\* f"[{lo:.2f}, {hi:.2f}]"
TickName(lo, hi) == Str(<<91>> \o Fmt2(lo) \o <<44, 32>> \o Fmt2(hi) \o <<93>>)

---------------------------------------------------------------------------
(* DataFrames: a function from column names to columns                     *)
(* [dtype |-> "object" | "float64", vals |-> the cells, one per row].      *)

Column(dtype, vals) == [dtype |-> dtype, vals |-> vals]

\* data[name] = column: a new column, or the column of that name replaced
SetColumn(data, name, column) == (name :> column) @@ data

NRows(data) == Len(data[CHOOSE c \in DOMAIN data : TRUE].vals)

---------------------------------------------------------------------------
(* find_percentiles *)

\* np.sort, as np.quantile orders its input
SortNums(S) == SortSeq(S, LAMBDA a, b : a < b)

\* the non-missing numbers of a column, in row order
DropNa(vals) ==
    LET kept == SelectSeq(vals, LAMBDA c : ~IsNa(c))
    IN [i \in DOMAIN kept |-> kept[i].v]

\* np.quantile(a, i/num_bins, method="lower"): no interpolation
QuantileLower(sorted, i, num_bins) ==
    RInt(sorted[((i * (Len(sorted) - 1)) \div num_bins) + 1])

\* np.quantile(a, i/num_bins), method "linear": a[lo] + (a[lo+1] - a[lo]) * frac
\* at the virtual index (i/num_bins) * (n - 1) of the sorted values
Quantile(sorted, i, num_bins) ==
    LET n == Len(sorted)
        h == i * (n - 1)
        lo == h \div num_bins
        hi == Min2(lo + 1, n - 1)
    IN RNorm(sorted[lo + 1] * num_bins + (sorted[hi + 1] - sorted[lo + 1]) * (h % num_bins),
             num_bins)

\* lines 75-76: the double q - 0.01 (sign -1) or q + 0.01 (sign 1); on a
\* column of Huge values q counts in units of 2^HugeExp and the result is q
Widen(q, sign, huge) ==
    IF huge THEN q
    ELSE IF sign < 0 THEN RSub(q, <<1, 100>>)
    ELSE RAdd(q, <<1, 100>>)

\* lines 73-76: the num_bins + 1 boundaries, the outer two widened by 0.01
Percentiles(nums, num_bins, huge) ==
    LET sorted == SortNums(nums)
    IN [j \in 1 .. num_bins + 1 |->
          IF nums = <<>> THEN RNan
          ELSE LET q == Quantile(sorted, j - 1, num_bins)
                   first == IF j = 1 THEN Widen(q, -1, huge) ELSE q
               IN IF j = num_bins + 1 THEN Widen(first, 1, huge) ELSE first]

\* line 79, np.digitize(x, bins): the number of boundaries <= x
Digitize(x, bins) == Cardinality({j \in DOMAIN bins : RLe(bins[j], RInt(x))})

\* line 81
TicksName(percentiles) ==
    [i \in 1 .. Len(percentiles) - 1 |-> TickName(percentiles[i], percentiles[i + 1])]

\* What np.quantile does with an empty column differs between numpy releases:
\* it raises IndexError, or it returns NaN for every boundary.
QuantileOfEmpty == {"raise", "nan"}

\* find_percentiles(data, col, num_bins).  Returns [exc, col, data] and the
\* locals percentiles and data_no_nan[col_bin] as digitized (line 79, by row);
\* exc is "" unless the call raises.  ticks_name[x - 1] with x = 0 is Python's
\* ticks_name[-1], with x = num_bins + 1 an IndexError.
FindPercentiles(data, col, num_bins, qe) ==
    LET vals == data[col].vals
        nums == DropNa(vals)
        present == {i \in DOMAIN vals : ~IsNa(vals[i])}
        percentiles == Percentiles(nums, num_bins, \E i \in present : IsHuge(vals[i]))
        ticks_name == TicksName(percentiles)
        bin(i) == Digitize(vals[i].v, percentiles)
        col_bin == col \o "_bin"
        labels == [i \in DOMAIN vals |->
                      IF IsNa(vals[i]) THEN Other
                      ELSE IF bin(i) = 0 THEN ticks_name[Len(ticks_name)]
                      ELSE ticks_name[bin(i)]]
        digitized == [i \in present |-> bin(i)]
    IN IF nums = <<>> /\ qe = "raise"
         THEN [exc |-> "IndexError", col |-> col, data |-> data,
               percentiles |-> <<>>, digitized |-> <<>>]
       ELSE IF \E i \in present : bin(i) > num_bins
         THEN [exc |-> "IndexError", col |-> col, data |-> data,
               percentiles |-> percentiles, digitized |-> digitized]
       ELSE [exc |-> "", col |-> col_bin,
             data |-> SetColumn(data, col_bin, Column("object", labels)),
             percentiles |-> percentiles, digitized |-> digitized]

\* remove_nans(data, col)
RemoveNans(data, col) ==
    LET vals == data[col].vals
    IN [exc |-> "", col |-> col,
        data |-> SetColumn(data, col,
                   Column("object",
                          [i \in DOMAIN vals |-> IF IsNa(vals[i]) THEN Other ELSE vals[i]]))]

---------------------------------------------------------------------------
(* add_column_other *)

\* sort_values(by="count", ascending=False): ties keep their order
RECURSIVE SortByCountDesc(_)
SortByCountDesc(s) ==
    IF s = <<>> THEN <<>>
    ELSE LET m == CHOOSE i \in DOMAIN s :
                    /\ \A j \in DOMAIN s : s[j].count <= s[i].count
                    /\ \A j \in 1 .. i - 1 : s[j].count < s[i].count
         IN <<s[m]>> \o SortByCountDesc(SubSeq(s, 1, m - 1) \o SubSeq(s, m + 1, Len(s)))

\* Series.value_counts(ascending=True): the rarest value first
ValueCountsAscending(vals) ==
    LET u == Unique(vals)
    IN SortSeq([i \in DOMAIN u |-> [value |-> u[i], count |-> Count(vals, u[i])]],
               LAMBDA a, b : a.count < b.count)

\* Series.value_counts(): one entry per distinct value, by decreasing count,
\* equal counts in order of first appearance
ValueCounts(vals) ==
    LET u == Unique(vals)
    IN SortByCountDesc([i \in DOMAIN u |-> [value |-> u[i], count |-> Count(vals, u[i])]])

\* line 142 with one label too many: vc[col].values[:num_bins + 1]
TopNumOneMore(vc, num_bins) == {vc[i].value : i \in 1 .. Min2(num_bins + 1, Len(vc))}

\* line 143 starting one label late: vc[col].values[num_bins + 1:]
BottomNumOneLate(vc, num_bins) == {vc[i].value : i \in num_bins + 2 .. Len(vc)}

\* lines 142-143: vc[col].values[:num_bins] and vc[col].values[num_bins:]
TopNum(vc, num_bins) == {vc[i].value : i \in 1 .. Min2(num_bins, Len(vc))}
BottomNum(vc, num_bins) == {vc[i].value : i \in num_bins + 1 .. Len(vc)}

\* lines 146-149 with both lambdas returning the label as it is
RenameKeepsLabel(x, top_num, bottom_num) == x

\* lines 146-149
RenameToOther(x, top_num, bottom_num) ==
    IF Cardinality(top_num) < Cardinality(bottom_num)
      THEN (IF x \in top_num THEN x ELSE Other)
      ELSE (IF x \notin bottom_num THEN x ELSE Other)

\* add_column_other(data, col, num_bins)
AddColumnOther(data, col, num_bins) ==
    LET vals == data[col].vals
        vc == ValueCounts(vals)
        top_num == TopNum(vc, num_bins)
        bottom_num == BottomNum(vc, num_bins)
    IN [exc |-> "", col |-> col \o "_other",
        data |-> SetColumn(data, col \o "_other",
                   Column("object",
                          [i \in DOMAIN vals |-> RenameToOther(vals[i], top_num, bottom_num)]))]

---------------------------------------------------------------------------
(* The contingency grid (lines 213-226).  A matrix is a sequence of rows.  *)

None == <<>>
Some(v) == <<v>>

\* value_counts() over the rows left by a dropna(): the rows whose label on
\* either axis is "Other" are not counted
OccurencesDropOther(xs, ys) ==
    LET pairs == {<<xs[i], ys[i]>> : i \in DOMAIN xs} \ ((({Other}) \X Range(ys)) \cup (Range(xs) \X {Other}))
        before(p, q) == StrLess(p[1], q[1]) \/ (p[1] = q[1] /\ StrLess(p[2], q[2]))
        keyed == [k \in 1 .. Cardinality(pairs) |->
                    CHOOSE p \in pairs : Cardinality({q \in pairs : before(q, p)}) = k - 1]
    IN SortByCountDesc([k \in DOMAIN keyed |->
          [x |-> keyed[k][1], y |-> keyed[k][2],
           count |-> Cardinality({i \in DOMAIN xs : <<xs[i], ys[i]>> = keyed[k]})]])

\* DataFrame.value_counts() of the two label columns: one entry per pair that
\* occurs, by decreasing count (ties in the order of the group keys)
Occurences(xs, ys) ==
    LET pairs == {<<xs[i], ys[i]>> : i \in DOMAIN xs}
        before(p, q) == StrLess(p[1], q[1]) \/ (p[1] = q[1] /\ StrLess(p[2], q[2]))
        keyed == [k \in 1 .. Cardinality(pairs) |->
                    CHOOSE p \in pairs : Cardinality({q \in pairs : before(q, p)}) = k - 1]
    IN SortByCountDesc([k \in DOMAIN keyed |->
          [x |-> keyed[k][1], y |-> keyed[k][2],
           count |-> Cardinality({i \in DOMAIN xs : <<xs[i], ys[i]>> = keyed[k]})]])

\* {label: i for i, label in enumerate(ticks)}: positions count from 0
Label2Index(ticks) ==
    [l \in Range(ticks) |-> (CHOOSE i \in DOMAIN ticks : ticks[i] = l) - 1]

\* lines 225-226 with the loop ending one entry of occurences early
FillGridButLast(grid, occurences, label2index_x, label2index_y) ==
    LET at(i, j) == {k \in 1 .. Len(occurences) - 1 :
                        /\ label2index_y[occurences[k].y] + 1 = i
                        /\ label2index_x[occurences[k].x] + 1 = j}
    IN [i \in DOMAIN grid |-> [j \in DOMAIN grid[i] |->
          IF at(i, j) = {} THEN grid[i][j]
          ELSE occurences[CHOOSE k \in at(i, j) : TRUE].count]]

\* lines 224-226: a grid of zeros, then one assignment per entry of occurences
RECURSIVE FillGrid(_, _, _, _)
FillGrid(grid, occurences, label2index_x, label2index_y) ==
    IF occurences = <<>> THEN grid
    ELSE LET row == Head(occurences)
             i == label2index_y[row.y] + 1
             j == label2index_x[row.x] + 1
         IN FillGrid([grid EXCEPT ![i][j] = row.count], Tail(occurences),
                     label2index_x, label2index_y)

Zeros(nrows, ncols) == [i \in 1 .. nrows |-> [j \in 1 .. ncols |-> 0]]

NumRows(m) == Len(m)
NumCols(m) == IF m = <<>> THEN 0 ELSE Len(m[1])
\* ndarray.size
Size(m) == NumRows(m) * NumCols(m)

\* grid.sum(axis=0)[j], grid.sum(axis=1)[i], grid.sum()
ColSum(grid, j) == SumSeq([i \in 1 .. NumRows(grid) |-> grid[i][j]])
RowSum(grid, i) == SumSeq(grid[i])
Total(grid) == SumSeq([i \in 1 .. NumRows(grid) |-> RowSum(grid, i)])

\* numpy broadcasting of a (1, n), (n, 1) or (1, 1) array against the grid
At(m, i, j) == m[IF NumRows(m) = 1 THEN 1 ELSE i][IF NumCols(m) = 1 THEN 1 ELSE j]

---------------------------------------------------------------------------
(* The normaliser (lines 228-256) *)

\* the 1e-7 of normalize_1d, as 1/EpsInv
EpsInv == 10000000

\* normalize_1d(arr): arr / (arr.sum() + 1e-7)
Normalize1d(arr) ==
    [i \in DOMAIN arr |-> RNorm(arr[i] * EpsInv, SumSeq(arr) * EpsInv + 1)]

\* lines 229-238 with the axes of "first" and "second" exchanged
FirstPartAxesSwapped(grid, normalize) ==
    [i \in 1 .. NumRows(grid) |-> [j \in 1 .. NumCols(grid) |->
        IF normalize = "first" THEN RDiv(RInt(grid[i][j]), RInt(RowSum(grid, i)))
        ELSE IF normalize = "second" THEN RDiv(RInt(grid[i][j]), RInt(ColSum(grid, j)))
        ELSE IF normalize = "both" THEN RDiv(RInt(grid[i][j]), RInt(Total(grid)))
        ELSE RInt(grid[i][j])]]

\* lines 229-238 with "both" dividing by the column sums, as "first" does
FirstPartBothByColumn(grid, normalize) ==
    [i \in 1 .. NumRows(grid) |-> [j \in 1 .. NumCols(grid) |->
        IF normalize \in {"first", "both"}
          THEN RDiv(RInt(grid[i][j]), RInt(ColSum(grid, j)))
        ELSE IF normalize = "second" THEN RDiv(RInt(grid[i][j]), RInt(RowSum(grid, i)))
        ELSE RInt(grid[i][j])]]

\* lines 229-238
FirstPart(grid, normalize) ==
    [i \in 1 .. NumRows(grid) |-> [j \in 1 .. NumCols(grid) |->
        IF normalize = "first" THEN RDiv(RInt(grid[i][j]), RInt(ColSum(grid, j)))
        ELSE IF normalize = "second" THEN RDiv(RInt(grid[i][j]), RInt(RowSum(grid, i)))
        ELSE IF normalize = "both" THEN RDiv(RInt(grid[i][j]), RInt(Total(grid)))
        ELSE RInt(grid[i][j])]]

\* lines 242-247 with the marginals of "first" and "second" exchanged
SecondPartAxesSwapped(grid, normalize) ==
    IF normalize = "second"
      THEN LET m == Normalize1d([i \in 1 .. NumRows(grid) |-> RowSum(grid, i)])
           IN Some([i \in 1 .. NumRows(grid) |-> <<m[i]>>])
    ELSE IF normalize = "first"
      THEN Some(<<Normalize1d([j \in 1 .. NumCols(grid) |-> ColSum(grid, j)])>>)
    ELSE None

\* lines 242-247 with second_part bound beforehand to the whole grid's share
SecondPartBoundFirst(grid, normalize) ==
    IF normalize = "first"
      THEN LET m == Normalize1d([i \in 1 .. NumRows(grid) |-> RowSum(grid, i)])
           IN Some([i \in 1 .. NumRows(grid) |-> <<m[i]>>])
    ELSE IF normalize = "second"
      THEN Some(<<Normalize1d([j \in 1 .. NumCols(grid) |-> ColSum(grid, j)])>>)
    ELSE Some(<<Normalize1d(<<Total(grid)>>)>>)

\* lines 242-247: second_part, bound only under "first" and "second"
SecondPart(grid, normalize) ==
    IF normalize = "first"
      THEN LET m == Normalize1d([i \in 1 .. NumRows(grid) |-> RowSum(grid, i)])
           IN Some([i \in 1 .. NumRows(grid) |-> <<m[i]>>])
    ELSE IF normalize = "second"
      THEN Some(<<Normalize1d([j \in 1 .. NumCols(grid) |-> ColSum(grid, j)])>>)
    ELSE None

\* lines 249-254 with the subtraction taken the other way round
CombineBaselineFirst(first_part, second_part, compare_default_value) ==
    [i \in 1 .. NumRows(first_part) |-> [j \in 1 .. NumCols(first_part) |->
        IF compare_default_value = "divide"
          THEN RDiv(first_part[i][j], At(second_part, i, j))
          ELSE RSub(At(second_part, i, j), first_part[i][j])]]

\* lines 249-254, given a bound second_part
Combine(first_part, second_part, compare_default_value) ==
    [i \in 1 .. NumRows(first_part) |-> [j \in 1 .. NumCols(first_part) |->
        IF compare_default_value = "divide"
          THEN RDiv(first_part[i][j], At(second_part, i, j))
          ELSE RSub(first_part[i][j], At(second_part, i, j))]]

---------------------------------------------------------------------------
(* Naturals beyond 32 bits: digits in base BigBase, least significant      *)
(* first, no leading zero digit; <<>> is 0.                                *)

BigBase == 100 * 100

RECURSIVE BigOfInt(_)
BigOfInt(n) == IF n = 0 THEN <<>> ELSE <<n % BigBase>> \o BigOfInt(n \div BigBase)

RECURSIVE BigAddC(_, _, _)
BigAddC(a, b, carry) ==
    IF a = <<>> /\ b = <<>> THEN (IF carry = 0 THEN <<>> ELSE <<carry>>)
    ELSE LET x == IF a = <<>> THEN 0 ELSE Head(a)
             y == IF b = <<>> THEN 0 ELSE Head(b)
             t == x + y + carry
         IN <<t % BigBase>> \o BigAddC(IF a = <<>> THEN <<>> ELSE Tail(a),
                                       IF b = <<>> THEN <<>> ELSE Tail(b),
                                       t \div BigBase)

BigAdd(a, b) == BigAddC(a, b, 0)

\* a * k for a digit-sized k
RECURSIVE BigMulDigit(_, _, _)
BigMulDigit(a, k, carry) ==
    IF a = <<>> THEN BigOfInt(carry)
    ELSE LET t == Head(a) * k + carry
         IN <<t % BigBase>> \o BigMulDigit(Tail(a), k, t \div BigBase)

RECURSIVE BigMul(_, _)
BigMul(a, b) ==
    IF a = <<>> \/ b = <<>> THEN <<>>
    ELSE LET rest == BigMul(a, Tail(b))
         IN BigAdd(IF Head(b) = 0 THEN <<>> ELSE BigMulDigit(a, Head(b), 0),
                   IF rest = <<>> THEN <<>> ELSE <<0>> \o rest)

RECURSIVE BigLeq(_, _)
BigLeq(a, b) ==
    IF Len(a) # Len(b) THEN Len(a) < Len(b)
    ELSE IF a = <<>> THEN TRUE
    ELSE IF a[Len(a)] # b[Len(b)] THEN a[Len(a)] < b[Len(b)]
    ELSE BigLeq(SubSeq(a, 1, Len(a) - 1), SubSeq(b, 1, Len(b) - 1))

---------------------------------------------------------------------------
(* ttest_bernoulli_ind *)

\* The levels alpha offered to the test.
AlphaSet == {<<1, 20>>, <<1, 10>>}

\* sps.norm.sf inverted: the z, times 10^7, at which 2 * sps.norm.sf(z) is
\* 1/d; the two-sided p-value of a z-score is <= 1/d exactly when |z| >= it.
ZCritE7(d) ==
    CASE d = 10 -> 16448536 [] d = 20 -> 19599640 [] d = 30 -> 21280452
      [] d = 40 -> 22414027 [] d = 50 -> 23263479 [] d = 60 -> 23939798
      [] d = 70 -> 24499977 [] d = 80 -> 24977055 [] d = 90 -> 25391848
      [] d = 100 -> 25758293 [] d = 110 -> 26086164 [] d = 120 -> 26382573
      [] d = 130 -> 26652851 [] d = 140 -> 26901095 [] d = 150 -> 27130519
      [] d = 160 -> 27343688 [] d = 180 -> 27729213 [] d = 200 -> 28070338
      [] d = 220 -> 28375969 [] d = 240 -> 28652602 [] d = 260 -> 28905116
      [] d = 280 -> 29137263 [] d = 300 -> 29351995 [] d = 320 -> 29551668

\* z-score of one cell: Z_score^2 = zn / zv with
\*   zn = (theta1 - theta2)^2 and zv = std^2, both over the common
\*   denominator (b1 b2)^2 num1 num2, for theta1 = a1/b1 and theta2 = a2/b2.
ZNum(theta1, theta2, num1, num2) ==
    LET d == BigOfInt(Abs(theta1[1] * theta2[2] - theta2[1] * theta1[2]))
    IN BigMul(BigMul(d, d), BigOfInt(num1 * num2))

ZVar(theta1, theta2, num1, num2) ==
    LET b1 == BigOfInt(theta1[2])
        b2 == BigOfInt(theta2[2])
    IN BigAdd(BigMul(BigOfInt(theta1[1] * (theta1[2] - theta1[1]) * num2), BigMul(b2, b2)),
              BigMul(BigMul(BigOfInt(theta2[1]), BigOfInt(theta2[2] - theta2[1])),
                     BigMul(BigOfInt(num1), BigMul(b1, b1))))

\* lines 119-122 with every division by a zero std taken for NaN
ZKindNanOnly(theta1, theta2, num1, num2) ==
    IF ZVar(theta1, theta2, num1, num2) # <<>> THEN "finite" ELSE "nan"

\* lines 119-122: "nan" (0/0), "inf" (x/0, x # 0) or "finite"
ZKind(theta1, theta2, num1, num2) ==
    IF ZVar(theta1, theta2, num1, num2) # <<>> THEN "finite"
    ELSE IF ZNum(theta1, theta2, num1, num2) = <<>> THEN "nan"
    ELSE "inf"

\* |Z_score| <= z for z = zE7 / 10^7: the comparison of line 126 reversed
ZAtMost(theta1, theta2, num1, num2, zE7) ==
    LET e7 == BigOfInt(10000000)
        z == BigOfInt(zE7)
    IN BigLeq(BigMul(BigMul(e7, e7), ZNum(theta1, theta2, num1, num2)),
              BigMul(BigMul(z, z), ZVar(theta1, theta2, num1, num2)))

\* |Z_score| >= z for z = zE7 / 10^7
ZAtLeast(theta1, theta2, num1, num2, zE7) ==
    LET e7 == BigOfInt(10000000)
        z == BigOfInt(zE7)
    IN BigLeq(BigMul(BigMul(z, z), ZVar(theta1, theta2, num1, num2)),
              BigMul(BigMul(e7, e7), ZNum(theta1, theta2, num1, num2)))

\* lines 123-126 for one cell: p_value <= alpha, p_value = 2 * sps.norm.sf(|Z|)
\* multiplied by factor and capped at 1.0 under mht.  A NaN p-value compares
\* False; the p-value of an infinite z-score is 0.
PValueLeq(theta1, theta2, num1, num2, factor, alpha) ==
    LET kind == ZKind(theta1, theta2, num1, num2)
    IN IF kind = "nan" THEN FALSE
       ELSE IF kind = "inf" THEN RLe(RInt(0), alpha)
       ELSE IF RLe(RInt(1), alpha) THEN TRUE
       ELSE IF RLe(alpha, RInt(0)) THEN FALSE
       ELSE ZAtLeast(theta1, theta2, num1, num2, ZCritE7((alpha[2] * factor) \div alpha[1]))

\* ttest_bernoulli_ind(theta1, theta2, num1, num2, mht, alpha): theta1 has the
\* shape of the grid, theta2 and num1 are broadcast, num2 is a scalar
TtestBernoulliInd(theta1, theta2, num1, num2, mht, alpha) ==
    [i \in 1 .. NumRows(theta1) |-> [j \in 1 .. NumCols(theta1) |->
        PValueLeq(theta1[i][j], At(theta2, i, j), At(num1, i, j), num2,
                  IF mht THEN Size(num1) ELSE 1, alpha)]]

---------------------------------------------------------------------------
(* calculate_ticks_and_norm *)

\* lines 195-204 for one axis
Discretize(data_part, col, num_bins, qe) ==
    IF data_part[col].dtype # "object"
      THEN FindPercentiles(data_part, col, num_bins, qe)
      ELSE RemoveNans(data_part, col)

\* lines 208-211 with the test len(unique()) > num_bins
ReduceIfMoreThanBins(data_part, col, num_bins) ==
    IF Len(Unique(data_part[col].vals)) > num_bins
      THEN AddColumnOther(data_part, col, num_bins)
      ELSE [exc |-> "", col |-> col, data |-> data_part]

\* lines 208-211 for one axis
ReduceIfTooMany(data_part, col, num_bins) ==
    IF Len(Unique(data_part[col].vals)) > num_bins + 1
      THEN AddColumnOther(data_part, col, num_bins)
      ELSE [exc |-> "", col |-> col, data |-> data_part]

\* line 215 with the test inverted: the indices of the excluded labels
XticksIdsTakeExcluded(xticks_name, do_not_show_x) ==
    {i \in DOMAIN xticks_name : xticks_name[i] \in do_not_show_x}

\* line 215
XticksIdsTake(xticks_name, do_not_show_x) ==
    {i \in DOMAIN xticks_name : xticks_name[i] \notin do_not_show_x}

\* the i-th smallest element of a set of indices
Nth(S, n) == CHOOSE i \in S : Cardinality({k \in S : k < i}) = n - 1

\* m[:, take]
TakeColumns(m, take) ==
    [i \in 1 .. NumRows(m) |-> [j \in 1 .. Cardinality(take) |-> m[i][Nth(take, j)]]]

\* line 272 returning xticks_name as it is
FilterKeepsAll(ticks, drop) == ticks

\* [x for x in xticks_name if not x in do_not_show_x]
RECURSIVE Filter(_, _)
Filter(ticks, drop) ==
    IF ticks = <<>> THEN <<>>
    ELSE IF Head(ticks) \in drop THEN Filter(Tail(ticks), drop)
    ELSE <<Head(ticks)>> \o Filter(Tail(ticks), drop)

Raised(exc) == [exc |-> exc, returned |-> None]

\* lines 213-275, the two axes discretized and reduced
GridAndReturn(a, data_part, xcol, ycol) ==
    LET xs == data_part[xcol].vals
        ys == data_part[ycol].vals
        xticks_name == SortedLabels(Range(xs))
        xticks_ids_take == XticksIdsTake(xticks_name, a.do_not_show_x)
        yticks_name == SortedLabels(Range(ys))
        occurences == Occurences(xs, ys)
        label2index_x == Label2Index(xticks_name)
        label2index_y == Label2Index(yticks_name)
        grid == FillGrid(Zeros(Len(yticks_name), Len(xticks_name)), occurences,
                         label2index_x, label2index_y)
        first_part == FirstPart(grid, a.normalize)
        compare == a.compare_default_value # "none"
        second_part == IF compare THEN SecondPart(grid, a.normalize) ELSE None
        known == a.compare_default_value \in {"divide", "subtract"}
        ret_grid == IF compare
                      THEN Combine(first_part, second_part[1], a.compare_default_value)
                      ELSE first_part
        num1 == IF a.normalize = "first"
                  THEN <<[j \in 1 .. NumCols(grid) |-> ColSum(grid, j)]>>
                  ELSE [i \in 1 .. NumRows(grid) |-> <<RowSum(grid, i)>>]
        num2 == Total(grid)
        ttest_result ==
            IF a.normalize \in {"first", "second"} /\ compare
              THEN Some(TtestBernoulliInd(first_part, second_part[1], num1, num2,
                                          a.mht, a.alpha))
              ELSE None
    IN IF compare /\ known /\ second_part = None THEN Raised("UnboundLocalError")
       ELSE IF compare /\ ~known THEN Raised("RuntimeError")
       ELSE [exc |-> "",
             data_part |-> data_part, xcol |-> xcol, ycol |-> ycol,
             first_part |-> first_part, second_part |-> second_part,
             num1 |-> num1,
             returned |-> Some(
               [ret_grid |-> TakeColumns(ret_grid, xticks_ids_take),
                ttest_result |-> IF ttest_result = None THEN None
                                 ELSE Some(TakeColumns(ttest_result[1], xticks_ids_take)),
                xticks_name |-> Filter(xticks_name, a.do_not_show_x),
                yticks_name |-> yticks_name,
                label2index_x |-> label2index_x,
                label2index_y |-> label2index_y,
                occurences |-> occurences,
                grid |-> grid])]

\* calculate_ticks_and_norm(data, xcol, ycol, ...): the locals at the return and
\* the returned tuple, or the exception raised.  data_part is a copy of the two
\* columns (line 193); the caller's DataFrame is not written.
CalculateTicksAndNorm(a, qe) ==
    LET data_part == [c \in {a.xcol, a.ycol} |-> a.data[c]]
        dx == Discretize(data_part, a.xcol, a.num_xbins, qe)
        dy == Discretize(dx.data, a.ycol, a.num_ybins, qe)
        rx == ReduceIfTooMany(dy.data, dx.col, a.num_xbins)
        ry == ReduceIfTooMany(rx.data, dy.col, a.num_ybins)
    IN IF dx.exc # "" THEN Raised(dx.exc)
       ELSE IF dy.exc # "" THEN Raised(dy.exc)
       ELSE GridAndReturn(a, ry.data, rx.col, ry.col)

---------------------------------------------------------------------------
(* The calls checked: every small dataset, on every mode. *)

\* the values of a column of the given dtype
Values(dtype) ==
    IF dtype = "object" THEN {Nan, Str(<<97>>), Str(<<98>>)}
    ELSE {Nan, Num(1), Num(2)}

DTypes == {"object", "float64"}

Columns(n) ==
    UNION {{Column(t, v) : v \in [1 .. n -> Values(t)]} : t \in DTypes}

DataFrames == UNION {[{"x", "y"} -> Columns(n)] : n \in 1 .. MaxRows}

NoCall == [exc |-> "", returned |-> None]

Init ==
    /\ pc = "call"
    /\ frame = NoCall
    /\ \E data \in DataFrames, num_xbins \in 1 .. MaxBins, num_ybins \in 1 .. MaxBins :
          args = [data |-> data, xcol |-> "x", ycol |-> "y",
                  num_xbins |-> num_xbins, num_ybins |-> num_ybins,
                  normalize |-> "none", compare_default_value |-> "none",
                  alpha |-> <<1, 20>>, mht |-> FALSE, do_not_show_x |-> {}]

\* what np.quantile may do in the call on a: it is handed an empty array
\* (line 73) only when a discretized axis holds no value but NaN
QuantileOutcomes(a) ==
    IF \E c \in {a.xcol, a.ycol} :
          a.data[c].dtype # "object" /\ DropNa(a.data[c].vals) = <<>>
      THEN QuantileOfEmpty
      ELSE {"nan"}

Call ==
    /\ pc = "call"
    /\ \E qe \in QuantileOutcomes(args) : frame' = CalculateTicksAndNorm(args, qe)
    /\ pc' = "done"
    /\ UNCHANGED args

Next == Call

Spec == Init /\ [][Next]_vars

---------------------------------------------------------------------------
(* IEEE-754 doubles, for the cells of grid / grid.sum(axis=0): a positive  *)
(* double is <<m, e>>, the value m * 2^e with 2^52 <= m < 2^53 (m a        *)
(* natural in base BigBase); <<<<>>, 0>> is 0.0.                           *)

\* 2^n, by halving the exponent
RECURSIVE BigPow2(_)
BigPow2(n) ==
    IF n <= 13 THEN BigOfInt(2 ^ n)
    ELSE BigMul(BigPow2(n \div 2), BigPow2(n - (n \div 2)))

\* drop the zero digits at the most significant end
RECURSIVE BigTrim(_)
BigTrim(a) ==
    IF a = <<>> \/ a[Len(a)] # 0 THEN a ELSE BigTrim(SubSeq(a, 1, Len(a) - 1))

\* <<quotient, remainder>> of a by a digit-sized k: long division from the
\* most significant digit down, rem[i] the remainder carried into digit i
BigDivDigit(a, k) ==
    LET rem[i \in 0 .. Len(a)] ==
            IF i = Len(a) THEN 0 ELSE (rem[i + 1] * BigBase + a[i + 1]) % k
    IN <<BigTrim([i \in 1 .. Len(a) |-> (rem[i] * BigBase + a[i]) \div k]), rem[0]>>

BigLess(a, b) == ~BigLeq(b, a)
BigIsOdd(a) == a # <<>> /\ Head(a) % 2 = 1

F64Zero == <<<<>>, 0>>
F64One == <<BigPow2(52), -52>>

\* the bits by which m, a natural below 2^57, exceeds 53 bits
ExcessBits(m) == Cardinality({t \in 53 .. 56 : BigLeq(BigPow2(t), m)})

\* round m * 2^e, m a positive natural below 2^57, to 53 bits, ties to even
F64Round(m, e) ==
    LET x == ExcessBits(m)
        qr == BigDivDigit(m, 2 ^ x)
        up == 2 * qr[2] > 2 ^ x \/ (2 * qr[2] = 2 ^ x /\ BigIsOdd(qr[1]))
        r == IF up THEN BigAdd(qr[1], <<1>>) ELSE qr[1]
    IN IF r = BigPow2(53) THEN <<BigPow2(52), e + x + 1>> ELSE <<r, e + x>>

\* the double nearest to c / s, for integers 0 <= c <= s, s > 0
F64Div(c, s) ==
    IF c = 0 THEN F64Zero
    ELSE LET j == CHOOSE t \in 0 .. 16 : c * 2 ^ t >= s /\ (t = 0 \/ c * 2 ^ (t - 1) < s)
             qr == BigDivDigit(BigMul(BigOfInt(c), BigPow2(52 + j)), s)
             up == 2 * qr[2] > s \/ (2 * qr[2] = s /\ BigIsOdd(qr[1]))
         IN F64Round(IF up THEN BigAdd(qr[1], <<1>>) ELSE qr[1], -(52 + j))

\* the double a + b, for doubles whose exponents differ by at most 4
F64Add(a, b) ==
    IF a[1] = <<>> THEN b
    ELSE IF b[1] = <<>> THEN a
    ELSE LET e == Min2(a[2], b[2])
         IN F64Round(BigAdd(BigMul(a[1], BigPow2(a[2] - e)), BigMul(b[1], BigPow2(b[2] - e))), e)

\* the double held by a cell of first_part whose exact value is the fraction r
F64(r) == F64Div(r[1], r[2])

\* grid.sum(axis=0)[j] of a float grid: the rows added one after the other
RECURSIVE F64ColSum(_, _, _)
F64ColSum(m, j, upto) ==
    IF upto = 0 THEN F64Zero ELSE F64Add(F64ColSum(m, j, upto - 1), F64(m[upto][j]))

---------------------------------------------------------------------------
(* The calls on every mode: categorical axes with two labels each, every   *)
(* normalize and compare_default_value, among them one value outside each  *)
(* documented set ("y" is the normalize of the example in the docstring of *)
(* histogram_3d_plotly).                                                   *)

ModeRows == 4

ModeLabels == {Str(<<97>>), Str(<<98>>)}

ModeFrames ==
    UNION {[{"x", "y"} -> {Column("object", v) : v \in [1 .. n -> ModeLabels]}] :
             n \in 1 .. ModeRows}

Normalizes == {"none", "first", "second", "both", "y"}
Compares == {"none", "divide", "subtract", "ratio"}

\* lines 259 and 263: the modes on which ttest_bernoulli_ind is called
TtestRuns(normalize, compare_default_value) ==
    normalize \in {"first", "second"} /\ compare_default_value \in {"divide", "subtract"}

InitModes ==
    /\ pc = "call"
    /\ frame = NoCall
    /\ \E data \in ModeFrames, normalize \in Normalizes, compare \in Compares,
          alpha \in AlphaSet, mht \in BOOLEAN :
          /\ TtestRuns(normalize, compare) \/ (alpha = <<1, 20>> /\ mht = FALSE)
          /\ args = [data |-> data, xcol |-> "x", ycol |-> "y",
                     num_xbins |-> 10, num_ybins |-> 10,
                     normalize |-> normalize, compare_default_value |-> compare,
                     alpha |-> alpha, mht |-> mht, do_not_show_x |-> {}]

SpecModes == InitModes /\ [][Next]_vars

---------------------------------------------------------------------------
(* The calls with normalize="first" and no comparison, on up to SumRows    *)
(* rows over two x-labels and three y-labels.  The grid depends on the     *)
(* rows only through the number of rows of each pair, so the rows are      *)
(* listed pair by pair.                                                    *)

SumRows == 6

SumPairs ==
    <<<<Str(<<97>>), Str(<<97>>)>>, <<Str(<<97>>), Str(<<98>>)>>,
      <<Str(<<97>>), Str(<<99>>)>>, <<Str(<<98>>), Str(<<97>>)>>,
      <<Str(<<98>>), Str(<<98>>)>>, <<Str(<<98>>), Str(<<99>>)>>>>

SumFrames ==
    UNION {{[c \in {"x", "y"} |->
               Column("object", [i \in 1 .. n |-> SumPairs[s[i]][IF c = "x" THEN 1 ELSE 2]])] :
              s \in {t \in [1 .. n -> DOMAIN SumPairs] :
                       \A i \in 1 .. n - 1 : t[i] <= t[i + 1]}} :
             n \in 1 .. SumRows}

InitFirst ==
    /\ pc = "call"
    /\ frame = NoCall
    /\ \E data \in SumFrames :
          args = [data |-> data, xcol |-> "x", ycol |-> "y",
                  num_xbins |-> 10, num_ybins |-> 10,
                  normalize |-> "first", compare_default_value |-> "none",
                  alpha |-> <<1, 20>>, mht |-> FALSE, do_not_show_x |-> {}]

SpecFirst == InitFirst /\ [][Next]_vars

---------------------------------------------------------------------------
(* The cardinality reducer on its own: add_column_other, and the step of   *)
(* calculate_ticks_and_norm that calls it (lines 208-211), each applied    *)
(* to a label column and then to its own output.  frame.reducer and        *)
(* frame.step list the column handed in and the results so far.            *)

RedRows == 4

RedLabels == {Str(<<97>>), Str(<<98>>), Str(<<99>>), Other}

RedFrames ==
    UNION {{[c \in {"x"} |-> Column("object", v)] : v \in [1 .. n -> RedLabels]} :
             n \in 1 .. RedRows}

Last(s) == s[Len(s)]

InitReducer ==
    /\ pc = "call"
    /\ \E data \in RedFrames, num_bins \in 1 .. MaxBins :
          /\ args = [data |-> data, col |-> "x", num_bins |-> num_bins]
          /\ frame = [exc |-> "",
                      reducer |-> <<[exc |-> "", col |-> "x", data |-> data]>>,
                      step |-> <<[exc |-> "", col |-> "x", data |-> data]>>]

ApplyReducer ==
    /\ pc \in {"call", "once"}
    /\ frame' = [frame EXCEPT
          !.reducer = Append(@, AddColumnOther(Last(@).data, Last(@).col, args.num_bins)),
          !.step = Append(@, ReduceIfTooMany(Last(@).data, Last(@).col, args.num_bins))]
    /\ pc' = IF pc = "call" THEN "once" ELSE "twice"
    /\ UNCHANGED args

NextReducer == ApplyReducer

SpecReducer == InitReducer /\ [][NextReducer]_vars

---------------------------------------------------------------------------
(* ttest_bernoulli_ind on its own, on one cell: probabilities with small   *)
(* denominators, among them 0 and 1, and small sample sizes.               *)

ThetaDen == 3
MaxNum == 3

Thetas == {RNorm(n, d) : n \in 0 .. ThetaDen, d \in 1 .. ThetaDen} \cap
          {r \in (0 .. ThetaDen) \X (1 .. ThetaDen) : r[1] <= r[2]}

InitTtest ==
    /\ pc = "call"
    /\ frame = NoCall
    /\ \E theta1 \in Thetas, theta2 \in Thetas, num1 \in 1 .. MaxNum, num2 \in 1 .. MaxNum,
          mht \in BOOLEAN, alpha \in AlphaSet :
          args = [theta1 |-> <<<<theta1>>>>, theta2 |-> <<<<theta2>>>>,
                  num1 |-> <<<<num1>>>>, num2 |-> num2, mht |-> mht, alpha |-> alpha]

CallTtest ==
    /\ pc = "call"
    /\ frame' = [exc |-> "",
                 returned |-> Some(TtestBernoulliInd(args.theta1, args.theta2, args.num1,
                                                     args.num2, args.mht, args.alpha))]
    /\ pc' = "done"
    /\ UNCHANGED args

NextTtest == CallTtest

SpecTtest == InitTtest /\ [][NextTtest]_vars

---------------------------------------------------------------------------
(* Claims about the raw count grid, checked under Spec.                    *)

Returned == pc = "done" /\ frame.returned # None

\* the labels of the two axes as the grid is built from them (line 213 on)
XLabels == frame.data_part[frame.xcol].vals
YLabels == frame.data_part[frame.ycol].vals

HasNa(column) == \E i \in DOMAIN column.vals : IsNa(column.vals[i])

ContingencyGridContents ==
    Returned =>
      LET r == frame.returned[1]
          xt == r.xticks_name
          yt == r.yticks_name
      IN /\ Range(xt) = Range(XLabels)
         /\ Range(yt) = Range(YLabels)
         /\ \A i, j \in DOMAIN xt : i < j => StrLess(xt[i], xt[j])
         /\ \A i, j \in DOMAIN yt : i < j => StrLess(yt[i], yt[j])
         /\ DOMAIN r.label2index_x = Range(xt)
         /\ DOMAIN r.label2index_y = Range(yt)
         /\ \A j \in DOMAIN xt : r.label2index_x[xt[j]] = j - 1
         /\ \A i \in DOMAIN yt : r.label2index_y[yt[i]] = i - 1
         /\ NumRows(r.grid) = Len(yt)
         /\ \A i \in DOMAIN yt : Len(r.grid[i]) = Len(xt)
         /\ \A i \in DOMAIN yt, j \in DOMAIN xt :
               r.grid[r.label2index_y[yt[i]] + 1][r.label2index_x[xt[j]] + 1] =
                 Cardinality({k \in DOMAIN XLabels : XLabels[k] = xt[j] /\ YLabels[k] = yt[i]})

\* C2 witness: a returned grid of at least two rows and two columns with a
\* pair that never occurs and a pair that occurs twice.
ContingencyGridWitness ==
    /\ Returned
    /\ LET g == frame.returned[1].grid
       IN /\ NumRows(g) >= 2 /\ NumCols(g) >= 2
          /\ \E i \in DOMAIN g : \E j \in DOMAIN g[i] : g[i][j] = 0
          /\ \E i \in DOMAIN g : \E j \in DOMAIN g[i] : g[i][j] = 2

---------------------------------------------------------------------------
(* Claims about normalize="first", checked under SpecFirst.  The returned  *)
(* grid holds doubles: the cell modelled by the fraction r holds F64(r),   *)
(* and a column is summed as grid.sum(axis=0) sums it, row after row.      *)

FirstOnly == Returned /\ args.normalize = "first" /\ args.compare_default_value = "none"

\* | v - 1 | <= n * 2^-52 for a double v
F64NearOne(v, n) ==
    \/ v[2] = -52 /\ BigLeq(v[1], BigAdd(BigPow2(52), BigOfInt(n)))
    \/ v[2] = -53 /\ BigLeq(BigPow2(53), BigAdd(v[1], BigOfInt(2 * n)))

\* C3, as stated: under normalize="first" without comparison every column of
\* the returned grid adds up to exactly 1.0.
FirstColumnsSumToOne ==
    FirstOnly =>
      LET r == frame.returned[1]
      IN \A j \in 1 .. NumCols(r.grid) :
            ColSum(r.grid, j) # 0 =>
              F64ColSum(r.ret_grid, j, NumRows(r.ret_grid)) = F64One

\* C3, amended: under normalize="first" without comparison every cell is its
\* raw count divided by the sum of its column, and every column of the
\* returned grid adds up to 1.0 within rounding: the sum differs from 1 by at
\* most 2^-52 per row of the grid.
FirstColumnsSumToOneRounded ==
    FirstOnly =>
      LET r == frame.returned[1]
      IN \A j \in 1 .. NumCols(r.grid) :
            /\ ColSum(r.grid, j) # 0
            /\ \A i \in 1 .. NumRows(r.grid) :
                  r.ret_grid[i][j] = RNorm(r.grid[i][j], ColSum(r.grid, j))
            /\ F64NearOne(F64ColSum(r.ret_grid, j, NumRows(r.ret_grid)), NumRows(r.grid))

\* C3 witness: a returned grid with a column of counts 1, 4, 1, whose three
\* quotients add up to a double below 1.0.
FirstColumnsWitness ==
    /\ FirstOnly
    /\ LET r == frame.returned[1]
       IN /\ NumRows(r.grid) = 3
          /\ \E j \in 1 .. NumCols(r.grid) :
                /\ <<r.grid[1][j], r.grid[2][j], r.grid[3][j]>> = <<1, 4, 1>>
                /\ F64ColSum(r.ret_grid, j, 3) # F64One
                /\ F64NearOne(F64ColSum(r.ret_grid, j, 3), 1)

---------------------------------------------------------------------------
(* Claims about the modes, checked under SpecModes.                        *)

Compared == Returned /\ TtestRuns(args.normalize, args.compare_default_value)

\* count / (total + 1e-7): an entry of a marginal normalised by normalize_1d
Marginal(count, total) == RNorm(count * EpsInv, total * EpsInv + 1)

\* C4: when a comparison is made, the cell of the returned grid is the
\* conditional combined with the baseline, by division under "divide" and by
\* subtraction under "subtract"; under "first" the conditional is the count
\* over its column sum and the baseline the normalised sum of the cell's row,
\* under "second" the conditional is the count over its row sum and the
\* baseline the normalised sum of the cell's column.
BaselineSelection ==
    Compared =>
      LET r == frame.returned[1]
          g == r.grid
          first == args.normalize = "first"
      IN \A i \in 1 .. NumRows(g) : \A j \in 1 .. NumCols(g) :
            LET cond == RDiv(RInt(g[i][j]),
                             RInt(IF first THEN ColSum(g, j) ELSE RowSum(g, i)))
                base == Marginal(IF first THEN RowSum(g, i) ELSE ColSum(g, j), Total(g))
            IN r.ret_grid[i][j] = IF args.compare_default_value = "divide"
                                    THEN RDiv(cond, base)
                                    ELSE RSub(cond, base)

\* C4 witness: a comparison by division under "first" on a grid whose first
\* row and first column have different sums, so that the two marginals differ.
BaselineSelectionWitness ==
    /\ Compared
    /\ args.normalize = "first" /\ args.compare_default_value = "divide"
    /\ LET g == frame.returned[1].grid
       IN NumRows(g) = 2 /\ NumCols(g) = 2 /\ RowSum(g, 1) # ColSum(g, 1)

\* C5, as stated: under mht every p-value is multiplied by the number of
\* cells of the tested grid, rows times columns, and capped at 1.0 before it
\* is compared with alpha.
BonferroniFactorIsCellCount ==
    (Compared /\ args.mht) =>
      LET r == frame.returned[1]
      IN \A i \in 1 .. NumRows(r.grid) : \A j \in 1 .. NumCols(r.grid) :
            r.ttest_result[1][i][j] =
              PValueLeq(frame.first_part[i][j], At(frame.second_part[1], i, j),
                        At(frame.num1, i, j), Total(r.grid), Size(frame.first_part),
                        args.alpha)

\* C7, as stated: a normalize outside {none, first, second, both} or a
\* compare_default_value outside {none, divide, subtract} ends in an error,
\* and no grid is returned.
InvalidConfigurationFails ==
    (/\ pc = "done"
     /\ \/ args.normalize \notin {"none", "first", "second", "both"}
        \/ args.compare_default_value \notin {"none", "divide", "subtract"})
      => (frame.returned = None /\ frame.exc # "")

\* C8: with compare_default_value "divide" or "subtract" and normalize "both"
\* or "none" the call raises and returns nothing.
UnsupportedCombinationRejected ==
    (/\ pc = "done"
     /\ args.compare_default_value \in {"divide", "subtract"}
     /\ args.normalize \in {"both", "none"})
      => (frame.returned = None /\ frame.exc # "")

\* C8 witness: a finished call with "subtract" and "both" that raised.
UnsupportedCombinationWitness ==
    /\ pc = "done"
    /\ args.compare_default_value = "subtract" /\ args.normalize = "both"
    /\ frame = Raised("UnboundLocalError")

---------------------------------------------------------------------------
(* Claims about ttest_bernoulli_ind, checked under SpecTtest.              *)

\* theta * (1 - theta) = 0
ZeroVariance(theta) == theta[1] = 0 \/ theta[1] = theta[2]

\* std = 0 at line 119: both terms under the root are 0
ZeroStd == ZeroVariance(args.theta1[1][1]) /\ ZeroVariance(args.theta2[1][1])

---------------------------------------------------------------------------
(* Claims about the cardinality reducer, checked under SpecReducer.        *)

\* the labels of the column a reduction returned
Labels(result) == result.data[result.col].vals

\* labels is vals with the labels outside top replaced by "Other"
KeepsOnly(labels, vals, top) ==
    /\ DOMAIN labels = DOMAIN vals
    /\ \A i \in DOMAIN vals : labels[i] = IF vals[i] \in top THEN vals[i] ELSE Other

\* top holds num_bins labels of vals, none less frequent than a label left out
MostFrequent(top, vals, num_bins) ==
    /\ top \subseteq Range(vals)
    /\ Cardinality(top) = num_bins
    /\ \A t \in top : \A u \in Range(vals) \ top : Count(vals, t) >= Count(vals, u)

\* C9: on a column with more than B+1 distinct labels the reduction keeps B
\* labels, none less frequent than a label it does not keep, and relabels
\* every other row "Other"; on a column with at most B+1 distinct labels the
\* step of calculate_ticks_and_norm leaves the column and its name as they are.
ReducerKeepsMostFrequent ==
    pc \in {"once", "twice"} =>
      LET vals == args.data["x"].vals
          B == args.num_bins
      IN IF Cardinality(Range(vals)) > B + 1
           THEN /\ \E top \in SUBSET Range(vals) :
                      /\ MostFrequent(top, vals, B)
                      /\ KeepsOnly(Labels(frame.step[2]), vals, top)
                /\ Labels(frame.reducer[2]) = Labels(frame.step[2])
           ELSE frame.step[2] = frame.step[1]

\* C9 witness: one application to a column of four distinct labels with a
\* budget of 1, two rows of which are relabelled.
ReducerWitness ==
    /\ pc = "once"
    /\ args.num_bins = 1
    /\ Cardinality(Range(args.data["x"].vals)) = 4
    /\ Cardinality({i \in DOMAIN Labels(frame.step[2]) :
                      Labels(frame.step[2])[i] # args.data["x"].vals[i]}) = 2

\* C10, as stated: a second application of add_column_other with the same
\* budget gives every row the label the first application gave it.
ReducerIdempotent ==
    pc = "twice" => Labels(frame.reducer[3]) = Labels(frame.reducer[2])

\* C10, amended: the reduction step of calculate_ticks_and_norm, which calls
\* add_column_other only on more than B+1 distinct labels, changes nothing
\* when applied to its own output; a second application of add_column_other
\* itself changes a label only to "Other".
ReductionStepIdempotent ==
    pc = "twice" =>
      /\ frame.step[3] = frame.step[2]
      /\ \A i \in DOMAIN Labels(frame.reducer[2]) :
            Labels(frame.reducer[3])[i] \in {Labels(frame.reducer[2])[i], Other}

\* C10 witness: after two applications to three labels of one row each with a
\* budget of 1, the step has kept the label that add_column_other, applied
\* again, merged into "Other".
ReductionStepWitness ==
    /\ pc = "twice"
    /\ args.num_bins = 1
    /\ Len(args.data["x"].vals) = 3 /\ Cardinality(Range(args.data["x"].vals)) = 3
    /\ Other \notin Range(args.data["x"].vals)
    /\ Labels(frame.step[3]) = Labels(frame.step[2])
    /\ Range(Labels(frame.step[3])) # {Other}
    /\ Range(Labels(frame.reducer[3])) = {Other}

---------------------------------------------------------------------------
(* find_percentiles on its own, on a continuous column "x": every column   *)
(* of up to PctRows cells over a few numbers and NaN, the same over Huge   *)
(* numbers, and the columns 1, 2, ..., n up to n = RunRows.                *)

PctRows == 3
PctBins == 4
RunRows == 100

PctCells == {{Nan, Num(1), Num(2), Num(3)}, {Nan, Huge(1), Huge(2)}}

PctColumns ==
    UNION {UNION {[1 .. n -> cells] : n \in 1 .. PctRows} : cells \in PctCells}
      \cup {[i \in 1 .. n |-> Num(i)] : n \in 1 .. RunRows}

InitPercentiles ==
    /\ pc = "call"
    /\ frame = NoCall
    /\ \E vals \in PctColumns, num_bins \in 1 .. PctBins :
          args = [data |-> [c \in {"x"} |-> Column("float64", vals)],
                  col |-> "x", num_bins |-> num_bins]

CallFindPercentiles ==
    /\ pc = "call"
    /\ \E qe \in IF DropNa(args.data["x"].vals) = <<>> THEN QuantileOfEmpty ELSE {"nan"} :
          frame' = FindPercentiles(args.data, args.col, args.num_bins, qe)
    /\ pc' = "done"
    /\ UNCHANGED args

NextPercentiles == CallFindPercentiles

SpecPercentiles == InitPercentiles /\ [][NextPercentiles]_vars

---------------------------------------------------------------------------
(* Claims about find_percentiles, checked under SpecPercentiles.           *)

\* the rows of the column that hold a value
Present == {i \in DOMAIN args.data["x"].vals : ~IsNa(args.data["x"].vals[i])}

\* the observed values, in the unit of the column
Observed == {args.data["x"].vals[i].v : i \in Present}

\* C11, as stated: on a column with at least one value find_percentiles
\* returns, every row that holds a value has a bin index in 1..B, and its
\* label is the label of that bin; no such row is indexed outside the list
\* of labels.
DiscretizationCoverage ==
    (pc = "done" /\ Present # {}) =>
      /\ frame.exc = ""
      /\ DOMAIN frame.digitized = Present
      /\ \A i \in Present :
            /\ frame.digitized[i] \in 1 .. args.num_bins
            /\ frame.data[frame.col].vals[i] =
                 TickName(frame.percentiles[frame.digitized[i]],
                          frame.percentiles[frame.digitized[i] + 1])

\* C12, as stated: the B+1 boundaries are non-decreasing, the first lies
\* strictly below the smallest observed value and the last strictly above
\* the largest.
QuantileMonotonicity ==
    (pc = "done" /\ Present # {} /\ frame.percentiles # <<>>) =>
      LET p == frame.percentiles
      IN /\ Len(p) = args.num_bins + 1
         /\ \A j \in 1 .. args.num_bins : RLe(p[j], p[j + 1])
         /\ \A v \in Observed : RLt(p[1], RInt(v)) /\ RLt(RInt(v), p[args.num_bins + 1])

\* the column 1, 2, ..., 100 with a budget of 4 bins
Run100 ==
    /\ args.data["x"].vals = [i \in 1 .. 100 |-> Num(i)]
    /\ args.num_bins = 4

\* C13: on the values 1, 2, ..., 100 with 4 bins the boundaries are 0.99,
\* 25.75, 50.5, 75.25 and 100.01 (the quartiles of the column, the first
\* lowered and the last raised by 0.01), and each of the 4 bins receives
\* exactly 25 values.
EqualCountBins ==
    (pc = "done" /\ Run100) =>
      /\ frame.exc = ""
      /\ frame.percentiles = <<<<99, 100>>, <<103, 4>>, <<101, 2>>, <<301, 4>>, <<10001, 100>>>>
      /\ \A k \in 1 .. 4 :
            Cardinality({i \in DOMAIN frame.digitized : frame.digitized[i] = k}) = 25
      /\ Cardinality(Range(frame.data[frame.col].vals)) = 4

\* C13 witness: the call on 1, 2, ..., 100 with 4 bins has returned, and the
\* first row is labelled "[0.99, 25.75]".
EqualCountBinsWitness ==
    /\ pc = "done" /\ Run100
    /\ frame.exc = ""
    /\ frame.data["x_bin"].vals[1] =
         Str(<<91, 48, 46, 57, 57, 44, 32, 50, 53, 46, 55, 53, 93>>)

---------------------------------------------------------------------------
(* The cardinality reducer on columns of ManyLabels distinct labels with a *)
(* budget of ManyBins: every label once, in increasing or decreasing       *)
(* order, followed by one more row for each label of a set of heavy ones.  *)

ManyLabels == 15
ManyBins == 10
ManyHeavy == 11

ManyLabel(i) == Str(<<96 + i>>)

ManyColumn(heavy, increasing) ==
    [r \in 1 .. ManyLabels + Cardinality(heavy) |->
        IF r > ManyLabels THEN ManyLabel(Nth(heavy, r - ManyLabels))
        ELSE IF increasing THEN ManyLabel(r)
        ELSE ManyLabel(ManyLabels + 1 - r)]

InitReducerMany ==
    /\ pc = "call"
    /\ \E heavy \in SUBSET (1 .. ManyHeavy), increasing \in BOOLEAN :
          LET data == [c \in {"x"} |-> Column("object", ManyColumn(heavy, increasing))]
          IN /\ args = [data |-> data, col |-> "x", num_bins |-> ManyBins]
             /\ frame = [exc |-> "",
                         reducer |-> <<[exc |-> "", col |-> "x", data |-> data]>>,
                         step |-> <<[exc |-> "", col |-> "x", data |-> data]>>]

SpecReducerMany == InitReducerMany /\ [][NextReducer]_vars

---------------------------------------------------------------------------
(* Claims about the reducer on many labels, checked under SpecReducerMany. *)

\* the sum of the k smallest of the occurrence counts of the labels of vals
LeastFrequentSum(vals, k) ==
    LET labels == Range(vals)
        counts == [i \in 1 .. Cardinality(labels) |->
                     Count(vals, CHOOSE l \in labels :
                                    Cardinality({m \in labels : StrLess(m, l)}) = i - 1)]
    IN SumSeq(SubSeq(SortSeq(counts, LAMBDA a, b : a < b), 1, k))

\* C14: on a column of 15 distinct labels, none of them "Other", with a
\* budget of 10, add_column_other returns a column of exactly 11 distinct
\* labels, "Other" among them, in which "Other" occurs as often as the 5
\* least frequent labels of the column together.  (In general: B+1 labels,
\* and the L-B least frequent of the L labels.)
ReducerScenario ==
    LET vals == args.data["x"].vals
        L == Cardinality(Range(vals))
        B == args.num_bins
    IN (pc \in {"once", "twice"} /\ L > B + 1 /\ Other \notin Range(vals)) =>
         LET reduced == Labels(frame.reducer[2])
         IN /\ Cardinality(Range(reduced)) = B + 1
            /\ Other \in Range(reduced)
            /\ Count(reduced, Other) = LeastFrequentSum(vals, L - B)
            /\ Labels(frame.step[2]) = reduced

\* C14 witness: one application to 15 labels with a budget of 10, one of
\* the 5 labels merged occurring twice: "Other" labels 6 rows.
ReducerScenarioWitness ==
    /\ pc = "once"
    /\ Cardinality(Range(args.data["x"].vals)) = 15 /\ args.num_bins = 10
    /\ Cardinality(Range(Labels(frame.reducer[2]))) = 11
    /\ Count(Labels(frame.reducer[2]), Other) = 6

---------------------------------------------------------------------------
(* The joint distribution of two categorical columns: "race" with four     *)
(* labels and "archetype" with three, no value missing, normalize="both",  *)
(* compare_default_value="none", the default ten bins.  The rows are       *)
(* JointBase[k] rows of cell k (cells numbered along the archetypes, then  *)
(* the races) followed by JointExtra rows of any cells.                    *)

JointExtra == 2

JointRaces == <<Str(<<97>>), Str(<<98>>), Str(<<99>>), Str(<<100>>)>>
JointArchetypes == <<Str(<<112>>), Str(<<113>>), Str(<<114>>)>>
JointCells == 1 .. Len(JointRaces) * Len(JointArchetypes)

JointBase == <<0, 4, 5, 9, 7, 8, 9, 10, 11, 12, 13, 10>>

\* the cell of base row k
JointBaseCell(k) ==
    CHOOSE c \in JointCells :
        /\ SumSeq(SubSeq(JointBase, 1, c - 1)) < k
        /\ k <= SumSeq(SubSeq(JointBase, 1, c))

JointRace(c) == JointRaces[((c - 1) % Len(JointRaces)) + 1]
JointArchetype(c) == JointArchetypes[((c - 1) \div Len(JointRaces)) + 1]

JointFrames ==
    LET nbase == SumSeq(JointBase)
        base == [k \in 1 .. nbase |-> JointBaseCell(k)]
    IN {LET cells == base \o extra
        IN [c \in {"race", "archetype"} |->
              Column("object", [k \in DOMAIN cells |->
                  IF c = "race" THEN JointRace(cells[k])
                  ELSE JointArchetype(cells[k])])] :
        extra \in [1 .. JointExtra -> JointCells]}

InitJoint ==
    /\ pc = "call"
    /\ frame = NoCall
    /\ \E data \in JointFrames :
          args = [data |-> data, xcol |-> "race", ycol |-> "archetype",
                  num_xbins |-> 10, num_ybins |-> 10,
                  normalize |-> "both", compare_default_value |-> "none",
                  alpha |-> <<1, 20>>, mht |-> FALSE, do_not_show_x |-> {}]

SpecJoint == InitJoint /\ [][Next]_vars

\* the sum of the fractions of a grid
RTotal(m) ==
    LET cell(k) == m[((k - 1) \div NumCols(m)) + 1][((k - 1) % NumCols(m)) + 1]
        upto[k \in 0 .. Size(m)] ==
            IF k = 0 THEN RInt(0) ELSE RAdd(upto[k - 1], cell(k))
    IN upto[Size(m)]

\* the rows of the call's dataset that hold race x and archetype y
JointCount(x, y) ==
    Cardinality({k \in 1 .. NRows(args.data) :
        /\ args.data["race"].vals[k] = x
        /\ args.data["archetype"].vals[k] = y})

\* C15: on a dataset of two categorical columns with four and three labels
\* and no missing value, normalize="both" without comparison returns a grid
\* of three rows and four columns whose cells add up to 1, the cell of
\* archetype y and race x being the number of rows with that pair divided by
\* the number of rows, and returns no significance mask.
JointDistribution ==
    pc = "done" =>
        /\ frame.exc = ""
        /\ LET r == frame.returned[1]
           IN /\ NumRows(r.ret_grid) = Len(JointArchetypes)
              /\ NumCols(r.ret_grid) = Len(JointRaces)
              /\ RTotal(r.ret_grid) = RInt(1)
              /\ \A i \in 1 .. Len(JointArchetypes), j \in 1 .. Len(JointRaces) :
                    r.ret_grid[i][j] =
                        RDiv(RInt(JointCount(JointRaces[j], JointArchetypes[i])),
                             RInt(NRows(args.data)))
              /\ r.ttest_result = None

\* a call has returned on 100 rows, with an empty cell and a cell of 13 rows
JointDistributionWitness ==
    /\ pc = "done"
    /\ frame.exc = ""
    /\ NRows(args.data) = 100
    /\ frame.returned[1].ret_grid[1][1] = RInt(0)
    /\ frame.returned[1].ret_grid[3][3] = <<13, 100>>
    /\ frame.returned[1].ret_grid[3][4] = <<3, 25>>

---------------------------------------------------------------------------
(* The sign of a compared cell, checked under SpecModes. *)

\* the rows of data_part with x-label x and y-label y
PairRows(x, y) == {k \in DOMAIN XLabels : XLabels[k] = x /\ YLabels[k] = y}
XRows(x) == {k \in DOMAIN XLabels : XLabels[k] = x}
YRows(y) == {k \in DOMAIN YLabels : YLabels[k] = y}

\* the conditional proportion of the cell of y and x is below its baseline:
\* pair / given < marginal / (rows + 1e-7), where given counts the rows of
\* the conditioning label and marginal those of the other label
BelowBaseline(x, y) ==
    LET pair == Cardinality(PairRows(x, y))
        given == Cardinality(IF args.normalize = "first" THEN XRows(x) ELSE YRows(y))
        marginal == Cardinality(IF args.normalize = "first" THEN YRows(y) ELSE XRows(x))
    IN pair * (Len(XLabels) * EpsInv + 1) < marginal * EpsInv * given

\* C16: under "first" and "second", every cell of a "divide" output is a
\* number not below zero, and a cell of a "subtract" output is negative
\* exactly when its conditional proportion is below its baseline.
ComparedSigns ==
    Compared =>
      LET r == frame.returned[1]
      IN \A i \in DOMAIN r.yticks_name : \A j \in DOMAIN r.xticks_name :
            LET cell == r.ret_grid[i][j]
            IN IF args.compare_default_value = "divide"
                 THEN RIsFinite(cell) /\ RLe(RInt(0), cell)
                 ELSE RLt(cell, RInt(0)) <=> BelowBaseline(r.xticks_name[j], r.yticks_name[i])

\* a "subtract" output with a negative cell and a positive cell
ComparedSignsWitness ==
    /\ Compared
    /\ args.compare_default_value = "subtract"
    /\ LET g == frame.returned[1].ret_grid
       IN \E i \in 1 .. NumRows(g) : \E j, k \in 1 .. NumCols(g) :
             RLt(g[i][j], RInt(0)) /\ RLt(RInt(0), g[i][k])

\* a "divide" output with a cell of zero and a cell above one
DivideSignsWitness ==
    /\ Compared
    /\ args.compare_default_value = "divide"
    /\ LET g == frame.returned[1].ret_grid
       IN \E i \in 1 .. NumRows(g) : \E j, k \in 1 .. NumCols(g) :
             g[i][j] = RInt(0) /\ RLt(RInt(1), g[i][k])

---------------------------------------------------------------------------
(* The test at several levels, checked under SpecTtest. *)

\* the levels the result of a call is compared at
AlphaLevels == AlphaSet \cup {<<1, 100>>, <<1, 1>>}

\* the mask of the call's data and mht at the level alpha
SignificantAt(alpha) ==
    TtestBernoulliInd(args.theta1, args.theta2, args.num1, args.num2, args.mht, alpha)[1][1]

\* C17: a cell significant at the level of the call is significant, on the
\* same data and mht, at every level at least as large; hence a cell not
\* significant is not significant at any smaller level.
SignificanceMonotone ==
    pc = "done" =>
      /\ frame.returned[1][1][1] = SignificantAt(args.alpha)
      /\ \A alpha \in AlphaLevels :
            /\ (frame.returned[1][1][1] /\ RLe(args.alpha, alpha)) => SignificantAt(alpha)
            /\ (~frame.returned[1][1][1] /\ RLe(alpha, args.alpha)) => ~SignificantAt(alpha)

\* a cell of positive std significant at 0.1 and at 1, not at 0.05
SignificanceMonotoneWitness ==
    /\ pc = "done"
    /\ ~ZeroStd
    /\ args.alpha = <<1, 10>>
    /\ frame.returned[1][1][1]
    /\ SignificantAt(<<1, 1>>)
    /\ ~SignificantAt(<<1, 20>>)

---------------------------------------------------------------------------
(* The calls with labels excluded from the x axis: categorical axes, the x *)
(* column with missing values, on modes with and without a significance    *)
(* mask, do_not_show_x over a label of the data, "Other" and a label the   *)
(* data do not hold.                                                       *)

ExclRows == 3

ExclAbsent == Str(<<99>>)

ExclFrames ==
    UNION {{[c \in {"x", "y"} |-> Column("object", IF c = "x" THEN vx ELSE vy)] :
               vx \in [1 .. n -> ModeLabels \cup {Nan}], vy \in [1 .. n -> ModeLabels]} :
             n \in 1 .. ExclRows}

ExclDrops ==
    {{}, {Str(<<97>>)}, {Str(<<97>>), Other}, {Other, ExclAbsent}}

ExclModes == {<<"first", "subtract">>, <<"second", "divide">>, <<"both", "none">>}

InitExclusion ==
    /\ pc = "call"
    /\ frame = NoCall
    /\ \E data \in ExclFrames, mode \in ExclModes,
          do_not_show_x \in ExclDrops :
          args = [data |-> data, xcol |-> "x", ycol |-> "y",
                  num_xbins |-> 10, num_ybins |-> 10,
                  normalize |-> mode[1], compare_default_value |-> mode[2],
                  alpha |-> <<1, 10>>, mht |-> FALSE, do_not_show_x |-> do_not_show_x]

SpecExclusion == InitExclusion /\ [][Next]_vars

\* the call of the state with nothing excluded
WithoutExclusion == CalculateTicksAndNorm([args EXCEPT !.do_not_show_x = {}], "nan")

\* every row of m has n columns
HasColumns(m, n) == \A i \in 1 .. NumRows(m) : Len(m[i]) = n

\* column k of m is column j of n
SameColumn(m, k, n, j) ==
    /\ NumRows(m) = NumRows(n)
    /\ \A i \in 1 .. NumRows(m) : m[i][k] = n[i][j]

\* C18: the x ticks returned are the sorted x ticks of the data without the
\* excluded labels, in the same order, and each column of the returned grid
\* and of the returned mask is the column the same call computes for that
\* label with nothing excluded.
ExclusionAppliedLast ==
    Returned =>
      LET r == frame.returned[1]
          full == WithoutExclusion
          f == full.returned[1]
          ticks == SortedLabels(Range(XLabels))
          kept == {j \in DOMAIN ticks : ticks[j] \notin args.do_not_show_x}
      IN /\ full.exc = ""
         /\ f.xticks_name = ticks
         /\ Len(r.xticks_name) = Cardinality(kept)
         /\ r.yticks_name = f.yticks_name
         /\ (r.ttest_result = None) <=> (f.ttest_result = None)
         /\ HasColumns(f.ret_grid, Len(ticks))
         /\ HasColumns(r.ret_grid, Cardinality(kept))
         /\ r.ttest_result # None =>
               /\ HasColumns(f.ttest_result[1], Len(ticks))
               /\ HasColumns(r.ttest_result[1], Cardinality(kept))
         /\ \A k \in DOMAIN r.xticks_name :
               LET j == Nth(kept, k)
               IN /\ r.xticks_name[k] = ticks[j]
                  /\ SameColumn(r.ret_grid, k, f.ret_grid, j)
                  /\ r.ttest_result # None =>
                        SameColumn(r.ttest_result[1], k, f.ttest_result[1], j)

\* a call with a mask that excluded the first of three x ticks and returned
\* the other two
ExclusionWitness ==
    /\ Returned
    /\ args.do_not_show_x = {Str(<<97>>)}
    /\ frame.returned[1].ttest_result # None
    /\ frame.returned[1].xticks_name = <<Other, Str(<<98>>)>>
    /\ Len(frame.returned[1].yticks_name) = 2

\* C19: the returned grid has one row for each returned y tick and one
\* column for each returned x tick, and so has the mask when there is one.
ReturnedShape ==
    Returned =>
      LET r == frame.returned[1]
          shaped(m) == /\ NumRows(m) = Len(r.yticks_name)
                       /\ \A i \in 1 .. NumRows(m) : Len(m[i]) = Len(r.xticks_name)
      IN /\ shaped(r.ret_grid)
         /\ r.ttest_result # None => shaped(r.ttest_result[1])

\* a call that returned a mask of two rows and one column, one of the two x
\* ticks excluded
ReturnedShapeWitness ==
    /\ Returned
    /\ args.do_not_show_x = {Other, ExclAbsent}
    /\ frame.returned[1].ttest_result # None
    /\ Len(frame.returned[1].yticks_name) = 2
    /\ Len(frame.returned[1].xticks_name) = 1
    /\ Len(XLabels) = ExclRows

\* the x ticks of the data that the call excluded
ExcludedTicks == Range(XLabels) \cap args.do_not_show_x

\* C28: the returned label2index_x holds the returned x ticks and no other
\* label, and gives each returned x tick its position, counted from 0, in
\* the returned x tick list, which is its column in the returned grid; also
\* when do_not_show_x is not empty.
IndexMapAgrees ==
    Returned =>
      LET r == frame.returned[1]
      IN /\ DOMAIN r.label2index_x = Range(r.xticks_name)
         /\ \A k \in DOMAIN r.xticks_name :
               r.label2index_x[r.xticks_name[k]] = k - 1

\* the returned label2index_x is the map of line 220, over all the x ticks of
\* the data: it agrees with the returned tick list and grid on the calls
\* that excluded no tick of the data, and on the others it holds the
\* excluded ticks as well
IndexMapOfAllTicks ==
    Returned =>
      LET r == frame.returned[1]
      IN /\ r.label2index_x = Label2Index(SortedLabels(Range(XLabels)))
         /\ r.label2index_y = Label2Index(r.yticks_name)
         /\ ExcludedTicks = {} =>
               /\ DOMAIN r.label2index_x = Range(r.xticks_name)
               /\ \A k \in DOMAIN r.xticks_name :
                     r.label2index_x[r.xticks_name[k]] = k - 1
         /\ ExcludedTicks # {} =>
               DOMAIN r.label2index_x = Range(r.xticks_name) \cup ExcludedTicks

\* a call that excluded the second of three x ticks: the last tick is column
\* 1 of the returned grid, and the returned map sends it to 2 and still
\* holds the excluded tick
IndexMapShifted ==
    /\ Returned
    /\ args.do_not_show_x = {Str(<<97>>)}
    /\ frame.returned[1].xticks_name = <<Other, Str(<<98>>)>>
    /\ frame.returned[1].label2index_x[Str(<<98>>)] = 2
    /\ Str(<<97>>) \in DOMAIN frame.returned[1].label2index_x

---------------------------------------------------------------------------
(* The discretization of one axis (lines 195-204) on its own: a column "x" *)
(* of up to AxisRows cells, categorical over two labels and NaN, or        *)
(* continuous over the cells of PctCells.                                  *)

AxisRows == 3

AxisColumns ==
    UNION {{Column("object", v) : v \in [1 .. n -> ModeLabels \cup {Nan}]}
             \cup UNION {{Column("float64", v) : v \in [1 .. n -> cells]} : cells \in PctCells} :
           n \in 1 .. AxisRows}

InitDiscretize ==
    /\ pc = "call"
    /\ frame = NoCall
    /\ \E column \in AxisColumns, num_bins \in 1 .. PctBins :
          args = [data |-> [c \in {"x"} |-> column], col |-> "x", num_bins |-> num_bins]

CallDiscretize ==
    /\ pc = "call"
    /\ \E qe \in IF args.data["x"].dtype # "object" /\ DropNa(args.data["x"].vals) = <<>>
                    THEN QuantileOfEmpty ELSE {"nan"} :
          frame' = Discretize(args.data, args.col, args.num_bins, qe)
    /\ pc' = "done"
    /\ UNCHANGED args

NextDiscretize == CallDiscretize

SpecDiscretize == InitDiscretize /\ [][NextDiscretize]_vars

\* the column handed in without its missing rows
WithoutMissing ==
    [c \in {"x"} |->
        Column(args.data["x"].dtype,
               SelectSeq(args.data["x"].vals, LAMBDA c2 : ~IsNa(c2)))]

\* the labels of the returned column are those of the statement: "Other" on
\* the missing rows; on the other rows the value itself (categorical), or
\* one of the interval labels of the boundaries, which are the boundaries of
\* the column without its missing rows (continuous)
LabelsAsStated ==
    LET vals == args.data["x"].vals
        labels == frame.data[frame.col].vals
        continuous == args.data["x"].dtype # "object"
    IN /\ DOMAIN labels = DOMAIN vals
       /\ \A i \in DOMAIN vals : IsNa(vals[i]) => labels[i] = Other
       /\ ~continuous => \A i \in DOMAIN vals : ~IsNa(vals[i]) => labels[i] = vals[i]
       /\ continuous =>
             /\ frame.percentiles =
                   FindPercentiles(WithoutMissing, "x", args.num_bins, "nan").percentiles
             /\ \A i \in DOMAIN vals :
                   ~IsNa(vals[i]) => labels[i] \in Range(TicksName(frame.percentiles))

\* C20, as stated: the discretization of an axis that holds a value labels
\* every missing row "Other"; a categorical axis keeps every value as its
\* label, a continuous axis computes its boundaries from the values alone
\* and gives every row that holds a value an interval label.
MissingBecomeOther ==
    (pc = "done" /\ Present # {}) => (frame.exc = "" /\ LabelsAsStated)

\* the same of the calls that return
MissingBecomeOtherOnReturn ==
    (pc = "done" /\ frame.exc = "") => LabelsAsStated

\* a continuous column with a missing row and two Huge values, on which the
\* discretization raises
DiscretizeRaises ==
    /\ pc = "done"
    /\ args.data["x"] = Column("float64", <<Nan, Huge(1), Huge(2)>>)
    /\ args.num_bins = 2
    /\ frame.exc = "IndexError"

---------------------------------------------------------------------------
(* Axes without a value, checked under Spec. *)

\* every cell of the column is missing
AllMissing(column) == \A i \in DOMAIN column.vals : IsNa(column.vals[i])

\* C21, as stated: a call on a dataset with an axis whose every value is
\* missing returns, and the axis has the single tick "Other": the grid has
\* one column when the axis is x and one row when it is y.
FullyMissingAxis ==
    pc = "done" =>
      /\ AllMissing(args.data["x"]) =>
            /\ frame.exc = ""
            /\ frame.returned[1].xticks_name = <<Other>>
            /\ HasColumns(frame.returned[1].grid, 1)
      /\ AllMissing(args.data["y"]) =>
            /\ frame.exc = ""
            /\ frame.returned[1].yticks_name = <<Other>>
            /\ NumRows(frame.returned[1].grid) = 1

\* the same of the axes the code treats as categorical, and of the
\* continuous axes on the releases of numpy whose np.quantile answers NaN
\* on an empty array
FullyMissingAxisCollapses ==
    (pc = "done" /\ frame.exc = "") =>
      /\ AllMissing(args.data["x"]) =>
            /\ frame.returned[1].xticks_name = <<Other>>
            /\ HasColumns(frame.returned[1].grid, 1)
      /\ AllMissing(args.data["y"]) =>
            /\ frame.returned[1].yticks_name = <<Other>>
            /\ NumRows(frame.returned[1].grid) = 1

\* a categorical axis without a value never makes the call fail
FullyMissingCategoricalReturns ==
    (pc = "done" /\ args.data["x"].dtype = "object" /\ args.data["y"].dtype = "object") =>
      frame.exc = ""

---------------------------------------------------------------------------
(* Constant columns, checked under SpecPercentiles. *)

\* the column holds a value, and its values are all the same
ConstantColumn == Present # {} /\ Cardinality(Observed) = 1

\* the rows that hold a value carry one and the same label
OneLabel ==
    \A i, j \in Present :
        frame.data[frame.col].vals[i] = frame.data[frame.col].vals[j]

\* C22, as stated: on a continuous column whose values are all equal
\* find_percentiles returns, for every number of bins, and gives all of them
\* the same bin label.
ConstantColumnOneBin ==
    (pc = "done" /\ ConstantColumn) => (frame.exc = "" /\ OneLabel)

\* the same of the columns of ordinary magnitude, where the last bin
\* [v, v + 0.01] takes the values
ConstantColumnLastBin ==
    (pc = "done" /\ ConstantColumn /\ \A i \in Present : ~IsHuge(args.data["x"].vals[i])) =>
      /\ frame.exc = ""
      /\ OneLabel
      /\ \A i \in Present : frame.digitized[i] = args.num_bins

\* two rows of the same Huge value, on which find_percentiles raises
ConstantColumnRaises ==
    /\ pc = "done"
    /\ args.data["x"].vals = <<Huge(1), Huge(1)>>
    /\ args.num_bins = 2
    /\ frame.exc = "IndexError"

---------------------------------------------------------------------------
(* The two renamings of the reducer, checked under SpecReducer. *)

\* the column handed to the k-th application of add_column_other
ReducerInput(k) == Labels(frame.reducer[k])

\* C23: in every application of the reducer the renaming by the keep set
\* (a label stays if it is in top_num, else "Other") and the renaming by the
\* collapse set (a label becomes "Other" if it is in bottom_num, else stays)
\* give every row the same label, which is the label the reducer writes.
KeepAndCollapseAgree ==
    \A k \in 1 .. Len(frame.reducer) - 1 :
        LET vals == ReducerInput(k)
            vc == ValueCounts(vals)
            top_num == TopNum(vc, args.num_bins)
            bottom_num == BottomNum(vc, args.num_bins)
        IN \A i \in DOMAIN vals :
              LET kept == IF vals[i] \in top_num THEN vals[i] ELSE Other
                  collapsed == IF vals[i] \in bottom_num THEN Other ELSE vals[i]
              IN kept = collapsed /\ Labels(frame.reducer[k + 1])[i] = kept

\* the reducer has run with a keep set smaller than the collapse set, and
\* has renamed a row
KeepAndCollapseWitness ==
    /\ pc = "once"
    /\ LET vc == ValueCounts(ReducerInput(1))
       IN Cardinality(TopNum(vc, args.num_bins)) < Cardinality(BottomNum(vc, args.num_bins))
    /\ \E i \in DOMAIN ReducerInput(1) :
          ReducerInput(1)[i] # Other /\ Labels(frame.reducer[2])[i] = Other

---------------------------------------------------------------------------
(* Two calls of calculate_ticks_and_norm in a row on the same arguments.   *)
(* frame.caller is the caller's DataFrame, frame.results the outcomes of   *)
(* the calls made so far, frame.numpy what this build's np.quantile does   *)
(* with an empty column.  The x column is categorical or continuous, with  *)
(* missing values, and a budget of one bin makes the reducer run.          *)

RepRows == 3

RepFrames ==
    UNION {{[c \in {"x", "y"} |-> IF c = "x" THEN cx ELSE Column("object", vy)] :
               cx \in Columns(n), vy \in [1 .. n -> ModeLabels]} :
             n \in 1 .. RepRows}

RepModes == {<<"none", "none">>, <<"first", "subtract">>}

InitRepeat ==
    /\ pc = "call"
    /\ \E data \in RepFrames, num_xbins \in 1 .. MaxBins, mode \in RepModes :
          /\ args = [data |-> data, xcol |-> "x", ycol |-> "y",
                     num_xbins |-> num_xbins, num_ybins |-> 10,
                     normalize |-> mode[1], compare_default_value |-> mode[2],
                     alpha |-> <<1, 10>>, mht |-> FALSE, do_not_show_x |-> {}]
          /\ \E qe \in QuantileOutcomes(args) :
                frame = [exc |-> "", caller |-> data, results |-> <<>>, numpy |-> qe]

\* the caller's DataFrame after a call with the outcome r sharing its
\* DataFrame with data_part: the writes of lines 86-87, 92 and 151 show in it
CallerDataShared(data, r) == IF r.exc = "" THEN r.data_part @@ data ELSE data

\* the caller's DataFrame after a call: line 193 copies the two columns, and
\* every write of the call goes to the copy
CallerData(data, r) == data

CallAgain ==
    /\ pc \in {"call", "once"}
    /\ \E r \in {CalculateTicksAndNorm([args EXCEPT !.data = frame.caller], frame.numpy)} :
          frame' = [frame EXCEPT !.results = Append(@, r),
                                 !.caller = CallerData(@, r)]
    /\ pc' = IF pc = "call" THEN "once" ELSE "twice"
    /\ UNCHANGED args

NextRepeat == CallAgain

SpecRepeat == InitRepeat /\ [][NextRepeat]_vars

\* the reducer of the call with outcome r read the column src and wrote
\* its result to another column, src keeping the labels of the
\* discretization
ReducerLeavesSource(r, src) ==
    r.xcol = src \o "_other" =>
      /\ src \in DOMAIN r.data_part
      /\ LET d == Discretize([c \in {"x", "y"} |-> args.data[c]], "x", args.num_xbins,
                            frame.numpy)
         IN d.col = src /\ r.data_part[src] = d.data[src]

---------------------------------------------------------------------------
(* plot_2d_heatmap (lines 423-472): the call of calculate_ticks_and_norm,  *)
(* the scaling to percentages, the suppression of the cells that are not   *)
(* significant and the annotations handed to the heat map.                 *)

\* grid * 100 (line 450) for one cell; the factor is divided out of the
\* denominator first
Times100(c) ==
    IF ~RIsFinite(c) THEN c
    ELSE LET g == Gcd(100, c[2])
         IN RNorm(c[1] * (100 \div g), c[2] \div g)

\* line 453 with the mask taken as it is: grid[ttest_result] = 0.0
SuppressSignificant(grid, mask) ==
    [i \in 1 .. NumRows(grid) |-> [j \in 1 .. Len(grid[i]) |->
        IF mask[i][j] THEN RInt(0) ELSE grid[i][j]]]

\* line 453: grid[~ttest_result] = 0.0
Suppress(grid, mask) ==
    [i \in 1 .. NumRows(grid) |-> [j \in 1 .. Len(grid[i]) |->
        IF mask[i][j] THEN grid[i][j] ELSE RInt(0)]]

\* "NSS"
Nss == Str(<<78, 83, 83>>)

\* f"{v:.2f}" (line 461), kept as the number it prints
Annotation(v) == [k |-> "str", fmt |-> ".2f", v |-> v]

\* lines 455-461
AnnotLabels(grid, ttest_result) ==
    [i \in 1 .. NumRows(grid) |-> [j \in 1 .. Len(grid[i]) |->
        IF ttest_result # None /\ ~ttest_result[1][i][j] THEN Nss
        ELSE Annotation(grid[i][j])]]

\* plot_2d_heatmap(data, xcol, ycol, ..., percentage, ...): what it returns,
\* its local annot_labels, and the tuple calculate_ticks_and_norm gave it
HeatmapOf(a, calc) ==
    LET r == calc.returned[1]
        scaled == IF a.percentage
                    THEN [i \in 1 .. NumRows(r.ret_grid) |->
                            [j \in 1 .. Len(r.ret_grid[i]) |-> Times100(r.ret_grid[i][j])]]
                    ELSE r.ret_grid
        grid == IF r.ttest_result # None THEN Suppress(scaled, r.ttest_result[1])
                ELSE scaled
    IN IF calc.exc # "" THEN [exc |-> calc.exc, returned |-> None]
       ELSE IF a.compare_default_value \notin {"none", "divide", "subtract"}
         THEN [exc |-> "RuntimeError", returned |-> None]
       ELSE [exc |-> "", calculated |-> r,
             annot_labels |-> AnnotLabels(grid, r.ttest_result),
             returned |-> Some([grid |-> grid, to_debug |-> <<r.occurences, r.grid>>])]

\* lines 423-432 call calculate_ticks_and_norm once; the rest works on the
\* tuple it returned
Plot2dHeatmap(a, qe) ==
    CHOOSE h \in {HeatmapOf(a, calc) : calc \in {CalculateTicksAndNorm(a, qe)}} : TRUE

HeatModes ==
    {<<"first", "subtract", FALSE>>, <<"second", "divide", FALSE>>,
     <<"second", "divide", TRUE>>, <<"both", "none", FALSE>>, <<"both", "none", TRUE>>,
     <<"first", "none", TRUE>>, <<"none", "ratio", FALSE>>}

InitHeatmap ==
    /\ pc = "call"
    /\ frame = NoCall
    /\ \E data \in ModeFrames, mode \in HeatModes :
          args = [data |-> data, xcol |-> "x", ycol |-> "y",
                  num_xbins |-> 10, num_ybins |-> 10,
                  normalize |-> mode[1], compare_default_value |-> mode[2],
                  percentage |-> mode[3],
                  alpha |-> <<1, 10>>, mht |-> FALSE, do_not_show_x |-> {}]

CallHeatmap ==
    /\ pc = "call"
    /\ \E qe \in QuantileOutcomes(args) : frame' = Plot2dHeatmap(args, qe)
    /\ pc' = "done"
    /\ UNCHANGED args

NextHeatmap == CallHeatmap

SpecHeatmap == InitHeatmap /\ [][NextHeatmap]_vars

\* C25: when plot_2d_heatmap returns and there is a significance mask,
\* every cell whose mask entry is false is 0 in the returned grid and is
\* annotated "NSS", and every cell whose mask entry is true has the value
\* calculate_ticks_and_norm computed, times 100 under percentage; when
\* there is no mask, every cell has the computed value, times 100 under
\* percentage, and none is annotated "NSS".
SuppressionOfNonSignificant ==
    Returned =>
      LET grid == frame.returned[1].grid
          calc == frame.calculated
          computed(i, j) == IF args.percentage THEN Times100(calc.ret_grid[i][j])
                            ELSE calc.ret_grid[i][j]
      IN /\ NumRows(grid) = NumRows(calc.ret_grid)
         /\ \A i \in 1 .. NumRows(grid) :
               /\ Len(grid[i]) = Len(calc.ret_grid[i])
               /\ \A j \in 1 .. Len(grid[i]) :
                     IF calc.ttest_result # None /\ ~calc.ttest_result[1][i][j]
                       THEN grid[i][j] = RInt(0) /\ frame.annot_labels[i][j] = Nss
                       ELSE /\ grid[i][j] = computed(i, j)
                            /\ frame.annot_labels[i][j] # Nss

\* a heat map in percentages has returned with a mask that holds a true
\* and a false entry, the cell of the true one not being 0
SuppressionWitness ==
    /\ Returned
    /\ args.percentage
    /\ frame.calculated.ttest_result # None
    /\ LET mask == frame.calculated.ttest_result[1]
       IN \E i, k \in 1 .. NumRows(mask) : \E j, l \in 1 .. Len(mask[i]) :
             /\ mask[i][j] /\ ~mask[k][l]
             /\ frame.returned[1].grid[i][j] # RInt(0)
             /\ frame.calculated.ret_grid[k][l] # RInt(0)

---------------------------------------------------------------------------
(* The sums of the raw count grid, checked under Spec. *)

\* C26: in the raw count grid of every call that returns, every row and
\* every column adds up to at least 1: each tick is the label of a row of
\* the dataset, so the column sums, the row sums and the total that the
\* normaliser divides by, and that the test takes as num1, are not 0.
NoEmptyRowOrColumn ==
    Returned =>
      LET grid == frame.returned[1].grid
      IN /\ NumRows(grid) >= 1 /\ NumCols(grid) >= 1
         /\ \A i \in 1 .. NumRows(grid) :
               /\ RowSum(grid, i) >= 1
               /\ \E k \in DOMAIN YLabels : YLabels[k] = frame.returned[1].yticks_name[i]
         /\ \A j \in 1 .. NumCols(grid) :
               /\ ColSum(grid, j) >= 1
               /\ \E k \in DOMAIN XLabels : XLabels[k] = frame.returned[1].xticks_name[j]
         /\ Total(grid) >= 1

\* a returned grid of two rows and two columns with an empty cell, one axis
\* continuous with a missing value
NoEmptyRowOrColumnWitness ==
    /\ Returned
    /\ args.data["x"].dtype = "float64" /\ HasNa(args.data["x"])
    /\ LET grid == frame.returned[1].grid
       IN /\ NumRows(grid) = 2 /\ NumCols(grid) = 2
          /\ \E i, j \in 1 .. 2 : grid[i][j] = 0

---------------------------------------------------------------------------
(* The calls on an x column of up to BudgetRows cells with more labels     *)
(* than the budget: categorical over two labels, the literal label "Other" *)
(* and NaN, or continuous over three numbers and NaN; the y column is      *)
(* constant.                                                               *)

BudgetRows == 4

BudgetColumns(n) ==
    {Column("object", v) : v \in [1 .. n -> ModeLabels \cup {Other, Nan}]}
      \cup {Column("float64", v) : v \in [1 .. n -> {Nan, Num(1), Num(2), Num(3)}]}

InitBudget ==
    /\ pc = "call"
    /\ frame = NoCall
    /\ \E n \in 1 .. BudgetRows, num_xbins \in 1 .. MaxBins :
          \E cx \in BudgetColumns(n) :
             args = [data |-> [c \in {"x", "y"} |->
                                 IF c = "x" THEN cx
                                 ELSE Column("object", [i \in 1 .. n |-> Str(<<97>>)])],
                     xcol |-> "x", ycol |-> "y",
                     num_xbins |-> num_xbins, num_ybins |-> 10,
                     normalize |-> "none", compare_default_value |-> "none",
                     alpha |-> <<1, 20>>, mht |-> FALSE, do_not_show_x |-> {}]

SpecBudget == InitBudget /\ [][Next]_vars

AxisCardinalityContinuous ==
    /\ Returned
    /\ args.num_xbins = 2
    /\ args.data["x"].dtype = "float64"
    /\ HasNa(args.data["x"])
    /\ Len(frame.returned[1].xticks_name) = 3

---------------------------------------------------------------------------
(* IMDBIDRetriever of scripts/parse_imdb_metadata.py: the sequential run   *)
(* with a checkpoint file.  args is the input table, frame the retriever   *)
(* object, the locals of process_imdb_ids and the two files the runs       *)
(* share, pc the position of the run.  A run may be killed between two     *)
(* iterations of the loop of line 186 and started again; every run reads   *)
(* the input table anew (line 76 or 79) and the checkpoint file (line 91). *)

RetRows == 3

MovieNames == {"A", "B"}

\* the id the IMDB search holds for the movie of row i (1-based here)
TitleId(i) == "tt" \o ToString(i)

\* None, and the NaN read_csv gives an empty cell: pd.isna is true of both
PyNone == "None"

\* a local name of a Python frame: not yet assigned, or bound to a value
Unbound == <<>>
Bound(v) == <<v>>

\* the input table: the movie names, and whether the input already holds
\* the row's id in an "IMDB movie ID" column
RetInputs ==
    UNION {[1 .. n -> [name : MovieNames, known : BOOLEAN]] : n \in 1 .. RetRows}

\* pd.read_csv(input_file), and lines 180-181: the id column of the frame
ReadCsv(rows) == [i \in DOMAIN rows |-> IF rows[i].known THEN TitleId(i) ELSE PyNone]

\* a dict, in insertion order: d[k] = v
DictPut(d, k, v) ==
    IF \E i \in DOMAIN d : d[i].key = k
      THEN [i \in DOMAIN d |-> IF d[i].key = k THEN [key |-> k, value |-> v] ELSE d[i]]
      ELSE Append(d, [key |-> k, value |-> v])

DictKeys(d) == {d[i].key : i \in DOMAIN d}

DictGet(d, k) == d[CHOOSE i \in DOMAIN d : d[i].key = k].value

\* line 106: the checkpoint of a first run
EmptyCheckpoint == [last_processed_index |-> -1, processed_ids |-> <<>>]

\* _load_checkpoint, lines 93-106: the JSON document of the file (names and
\* ids are strings, the index an int: json.load gives back what json.dump
\* wrote, the keys in the order written), or the empty checkpoint
LoadCheckpoint(file) == IF file = None THEN EmptyCheckpoint ELSE file[1]

\* _save_checkpoint, lines 108-121, on the checkpoint of the object: the
\* checkpoint after lines 113-116, which lines 118-119 write to the file
SaveCheckpoint(checkpoint, movie_name, index, imdb_id) ==
    [last_processed_index |-> index,
     processed_ids |-> IF imdb_id # PyNone
                         THEN DictPut(checkpoint.processed_ids, movie_name, imdb_id)
                         ELSE checkpoint.processed_ids]

\* find_imdb_id, lines 133-174, on row i: the id of the best match, or None
\* when the search matches nothing or raises
FindImdbId(i) == {TitleId(i), PyNone}

\* the memory of a process that has not run yet, beside the two files
NoRetriever(file, output) ==
    [df |-> <<>>, checkpoint |-> EmptyCheckpoint, imdb_id |-> Unbound, index |-> 0,
     exc |-> "", file |-> file, output |-> output]

InitRetriever ==
    /\ pc = "new"
    /\ frame = NoRetriever(None, None)
    /\ \E rows \in RetInputs : args = [rows |-> rows]

\* __init__, lines 74-91
Construct ==
    /\ pc = "new"
    /\ frame' = [frame EXCEPT !.df = ReadCsv(args.rows),
                              !.checkpoint = LoadCheckpoint(frame.file)]
    /\ pc' = "constructed"
    /\ UNCHANGED args

\* process_imdb_ids, lines 178-186: the start index, and the ids of the
\* checkpoint restored by movie name; the loop of line 183 leaves its last
\* item in the local imdb_id
RestoreProcessedIds ==
    /\ pc = "constructed"
    /\ LET ids == frame.checkpoint.processed_ids
       IN frame' = [frame EXCEPT
            !.index = frame.checkpoint.last_processed_index + 1,
            !.df = [i \in DOMAIN frame.df |->
                      IF args.rows[i].name \in DictKeys(ids)
                        THEN DictGet(ids, args.rows[i].name) ELSE frame.df[i]],
            !.imdb_id = IF ids = <<>> THEN Unbound ELSE Bound(ids[Len(ids)].value)]
    /\ pc' = "loop"
    /\ UNCHANGED args

\* one iteration of the loop of line 186, lines 189-192; reading the local
\* imdb_id at line 192 before any assignment raises UnboundLocalError, which
\* line 202 catches: lines 203-204 write the table and the run ends
ProcessRow ==
    /\ pc = "loop"
    /\ frame.index < Len(frame.df)
    /\ LET i == frame.index + 1
           isna == frame.df[i] = PyNone
       IN \E found \in FindImdbId(i) :
            LET imdb_id == IF isna THEN Bound(found) ELSE frame.imdb_id
                df == IF isna THEN [frame.df EXCEPT ![i] = found] ELSE frame.df
            IN IF imdb_id = Unbound
                 THEN /\ frame' = [frame EXCEPT !.df = df, !.exc = "UnboundLocalError",
                                                !.output = Some(df)]
                      /\ pc' = "done"
                 ELSE LET checkpoint == SaveCheckpoint(frame.checkpoint, args.rows[i].name,
                                                       frame.index, imdb_id[1])
                      IN /\ frame' = [frame EXCEPT !.df = df, !.imdb_id = imdb_id,
                                                   !.checkpoint = checkpoint,
                                                   !.file = Some(checkpoint),
                                                   !.index = frame.index + 1]
                         /\ pc' = "loop"
    /\ UNCHANGED args

\* lines 194-200, after the last row
SaveOutput ==
    /\ pc = "loop"
    /\ frame.index >= Len(frame.df)
    /\ frame' = [frame EXCEPT !.output = Some(frame.df)]
    /\ pc' = "done"
    /\ UNCHANGED args

\* the process is killed between two rows: the files stay
Interrupt ==
    /\ pc \in {"constructed", "loop"}
    /\ frame' = NoRetriever(frame.file, frame.output)
    /\ pc' = "new"
    /\ UNCHANGED args

\* the script is started again after a run that ended
Resume ==
    /\ pc = "done"
    /\ frame' = NoRetriever(frame.file, frame.output)
    /\ pc' = "new"
    /\ UNCHANGED args

NextRetriever ==
    \/ Construct
    \/ RestoreProcessedIds
    \/ ProcessRow
    \/ SaveOutput
    \/ Interrupt
    \/ Resume

SpecRetriever == InitRetriever /\ [][NextRetriever]_vars

\* the ids looked up for, or stored on, the rows of a movie name
IdsOfName(name) == {TitleId(j) : j \in {i \in DOMAIN args.rows : args.rows[i].name = name}}

\* the checkpoint file maps every name to an id of a row of that name
OwnIdsOnly ==
    frame.file # None =>
      LET ids == frame.file[1].processed_ids
      IN \A k \in DOMAIN ids : ids[k].value \in IdsOfName(ids[k].key)

\* C29: in every run and resume, every entry of processed_ids in the
\* checkpoint file maps a movie name to the id of a row of that name, and no
\* run ends by an exception before its remaining rows are processed.
CheckpointRecordsOwnId ==
    /\ OwnIdsOnly
    /\ pc = "done" => frame.exc = ""

\* when every row of the input has its own name and none has an id, every
\* run looks every remaining row up: the entries are the rows' own ids and
\* no run is aborted
CheckpointOfLookedUpRows ==
    (/\ \A i \in DOMAIN args.rows : ~args.rows[i].known
     /\ \A i, j \in DOMAIN args.rows : args.rows[i].name = args.rows[j].name => i = j)
    => CheckpointRecordsOwnId

\* a resumed run saved, under the name of a row whose id was restored by
\* name, the id looked up for the row before it
StaleIdSaved ==
    /\ pc = "loop"
    /\ Len(args.rows) = 3
    /\ \A i \in DOMAIN args.rows : ~args.rows[i].known
    /\ args.rows[1].name = "A" /\ args.rows[2].name = "B" /\ args.rows[3].name = "A"
    /\ frame.index = 3
    /\ frame.file # None
    /\ "A" \in DictKeys(frame.file[1].processed_ids)
    /\ DictGet(frame.file[1].processed_ids, "A") = TitleId(2)

\* a first run on a table whose first row already has its id ended at line
\* 192 with nothing written to the checkpoint file and two rows left
LoopAborted ==
    /\ pc = "done"
    /\ frame.exc = "UnboundLocalError"
    /\ Len(args.rows) = 3
    /\ frame.index = 0
    /\ frame.file = None

---------------------------------------------------------------------------
(* enrich_movie_data of scripts/movie_metadata_selection.py: runs against  *)
(* the same output file.  args is the input table, frame the locals of the *)
(* run and the output file, pc the position of the run.  A run may be      *)
(* killed between two iterations of the loop of line 148 and the script    *)
(* started again.                                                          *)

EnrRows == 3

MaxRuns == 3

\* the "Wikipedia movie ID" column of the input: one row for each movie
EnrInputs == {[i \in 1 .. n |-> "m" \o ToString(i)] : n \in 1 .. EnrRows}

\* process(row), lines 109-118: row | metadata holds page_summary when the
\* page was found (line 104); the row alone comes back when the page is
\* missing (line 62) or the extraction raised (lines 116-117)
Process(id) ==
    {[id |-> id, page_summary |-> found] : found \in BOOLEAN}

\* lines 142-143: the rows whose id has no record with page_summary
NotAlready(df, result) ==
    LET already == {result[k].id : k \in {l \in DOMAIN result : result[l].page_summary}}
    IN SelectSeq(df, LAMBDA id : id \notin already)

\* the memory of a process that has not run yet, beside the output file
NoEnrichment(file, runs) ==
    [df |-> <<>>, result |-> <<>>, i |-> 0, last_time |-> "0", file |-> file,
     runs |-> runs]

InitEnrich ==
    /\ pc = "new"
    /\ frame = NoEnrichment(None, 0)
    /\ \E ids \in EnrInputs : args = [ids |-> ids]

\* lines 126-147: the table is read, the saved list loaded and the rows
\* already enriched dropped; without an output file the list is empty
LoadResult ==
    /\ pc = "new"
    /\ frame.runs < MaxRuns
    /\ LET result == IF frame.file = None THEN <<>> ELSE frame.file[1]
       IN frame' = [frame EXCEPT !.result = result,
                                 !.df = NotAlready(args.ids, result),
                                 !.i = 0, !.last_time = "0",
                                 !.runs = frame.runs + 1]
    /\ pc' = "loop"
    /\ UNCHANGED args

\* one iteration of the loop of line 148, lines 154-158: the record is
\* appended, and the list written when more than 60 s passed since the last
\* write, which is so on the first iteration (last_time = 0, line 147)
EnrichRow ==
    /\ pc = "loop"
    /\ frame.i < Len(frame.df)
    /\ \E row \in Process(frame.df[frame.i + 1]),
          late \in IF frame.last_time = "0" THEN {TRUE} ELSE BOOLEAN :
         LET result == Append(frame.result, row)
         IN frame' = [frame EXCEPT !.result = result, !.i = frame.i + 1,
                                   !.last_time = IF late THEN "now" ELSE frame.last_time,
                                   !.file = IF late THEN Some(result) ELSE frame.file]
    /\ pc' = "loop"
    /\ UNCHANGED args

\* lines 160-161, after the last row
DumpResult ==
    /\ pc = "loop"
    /\ frame.i >= Len(frame.df)
    /\ frame' = [frame EXCEPT !.file = Some(frame.result)]
    /\ pc' = "done"
    /\ UNCHANGED args

\* the process is killed between two rows: the output file stays
InterruptEnrich ==
    /\ pc = "loop"
    /\ frame' = NoEnrichment(frame.file, frame.runs)
    /\ pc' = "new"
    /\ UNCHANGED args

\* the script is started again after a run that ended
ResumeEnrich ==
    /\ pc = "done"
    /\ frame' = NoEnrichment(frame.file, frame.runs)
    /\ pc' = "new"
    /\ UNCHANGED args

NextEnrich ==
    \/ LoadResult
    \/ EnrichRow
    \/ DumpResult
    \/ InterruptEnrich
    \/ ResumeEnrich

SpecEnrich == InitEnrich /\ [][NextEnrich]_vars

\* the records of the saved list that satisfy keep have distinct ids
DistinctIds(keep(_)) ==
    frame.file # None =>
      LET saved == frame.file[1]
      IN \A k, l \in {j \in DOMAIN saved : keep(saved[j])} :
            saved[k].id = saved[l].id => k = l

\* no row still to be processed by the run has a saved record with
\* page_summary
EnrichedNeverAgain ==
    (pc = "loop" /\ frame.file # None) =>
      \A j \in frame.i + 1 .. Len(frame.df) :
        \A k \in DOMAIN frame.file[1] :
          frame.file[1][k].id = frame.df[j] => ~frame.file[1][k].page_summary

\* C30: after any sequence of interrupted and resumed runs the saved list
\* has at most one record for each Wikipedia movie ID, and a movie with a
\* saved record that has page_summary is not processed again.
OneRecordPerMovie ==
    /\ DistinctIds(LAMBDA r : TRUE)
    /\ EnrichedNeverAgain

\* the saved list has at most one record with page_summary for each movie,
\* and a movie that has one is not processed again
OneEnrichedRecordPerMovie ==
    /\ DistinctIds(LAMBDA r : r.page_summary)
    /\ EnrichedNeverAgain

\* a second run has processed again the movie whose enrichment failed in
\* the first run: the saved list holds the failed record and the new one
FailedRecordKept ==
    /\ pc = "done"
    /\ frame.runs = 2
    /\ args.ids = <<"m1", "m2">>
    /\ frame.file = Some(<<[id |-> "m1", page_summary |-> FALSE],
                           [id |-> "m2", page_summary |-> TRUE],
                           [id |-> "m1", page_summary |-> TRUE]>>)

====
